---- MODULE Spec2Model ----
(***************************************************************************)
(* Model of the storage gateway.  First the upload orchestration (class   *)
(* Uploader: canUpload, prepareUpload, upload, completeUpload); the other  *)
(* components follow, each with its own specification.                     *)
(*                                                                         *)
(* Every call of upload() or completeUpload() is a process.  An action is *)
(* the code that runs between two awaits: JavaScript runs such a segment   *)
(* without interleaving, and other calls run only while a promise is       *)
(* pending.  All processes address the same (bucket, name).                *)
(***************************************************************************)
EXTENDS Integers, FiniteSets, Sequences, TLC

\* Number of upload()/completeUpload() calls made on the object; the calls
\* are numbered in the order in which they are made.
NumUploads == 2

Procs == 1..NumUploads

NoVersion == 0
NoHolder == 0

\* randomUUID() never repeats: the n-th token minted is n.
Versions == 1..NumUploads

\* The errors of a rejected permission probe.
ProbeErrors == {"PolicyDenied", "Duplicate"}

VARIABLES
    pc,            \* position of each call
    entry,         \* "upload" or "completeUpload": the method the caller invoked
    isUpsert,      \* request.isUpsert
    version,       \* version token of the call
    currentObj,    \* version read by findObject in the transaction (NoVersion: no row)
    err,           \* the error first thrown in the call ("none" if none)
    raised,        \* the error the caller receives ("none" if none)
    mutated,       \* the calls that issued upsertObject
    webhookFailed, \* the calls whose sendWebhook promise rejected
    rows,          \* committed metadata rows of (bucket, name), by version
    lock,          \* holder of the object lock of (bucket, name)
    blobs,         \* blob revisions written to the backend
    backendCalls,  \* the calls that invoked backend.uploadObject
    sends,         \* ObjectAdminDelete jobs accepted by the queue
    events,        \* ObjectCreated webhooks accepted by the queue
    minted,        \* number of version tokens minted so far
    uploadStarted, \* FileUploadStarted counter
    uploadSuccess, \* FileUploadedSuccess counter
    \* GCSBackend.copyObject
    cpPc,          \* position of the copyObject call
    cpReq,         \* its arguments
    cpDirective,   \* the X-Goog-Metadata-Directive header it sent
    \* getSignedUrl
    sgPc,          \* position of the getSignedUrl call
    sgReq,         \* its request headers and options
    sgLive,        \* whether the runtime's Headers iterator sees deletions
    sgHeaders,     \* the Headers object: header names, sorted
    sgQuery,       \* url.searchParams: parameter names, in order
    sgHashed,      \* the query string hashed by hashCanonicalRequest
    sgSigned,      \* the X-Goog-SignedHeaders value
    sgExpires,     \* the X-Goog-Expires value
    sgCalls,       \* the calls made on the signing identity, in order
    sgResult,      \* "none", "url" or the error thrown
    \* deleteObjects
    dlPc,          \* position of the deleteObjects call
    dlKeys,        \* keys.length
    dlIssued,      \* keys handed to the limiter so far
    dlQueue,       \* queue.length
    dlStarted,     \* backend deletes sent so far
    dlSettled,     \* backend deletes settled so far
    dlFailed,      \* whether a backend delete has failed
    dlTaskRejected, \* whether a promise of the queue has rejected
    \* TenantConnection.transaction
    txPc,          \* position of the transaction() call
    txOpts,        \* whether an instance is passed, options.isExternalPool
    txAttempts,    \* the attempts of pool.transaction() made so far
    txRetried,     \* the errors after which another attempt was scheduled
    txTnx,         \* the transaction object obtained
    txError,       \* the error the call threw, "none" before
    \* the pool cache of TenantConnection
    plMultitenant, \* the isMultitenant configuration
    plExternal,    \* options.isExternalPool, per connection string
    plCache,       \* connections: connection string -> pool, NoPool when absent
    plAge,         \* time since the entry's TTL was last set
    plPools,       \* the pools built so far, in order
    plPrev,        \* per connection string: the latest create
    plPair,        \* per connection string: the latest two creates
    plStop,        \* the latest stop() call
    \* the connections of one pool
    aqMax,         \* the pool's max
    aqCustom,      \* whether create installed the custom release policy
    aqUsed,        \* pool.used: the resources in use
    aqFree,        \* pool.free: the idle resources
    aqPendingAcquires, \* pool.pendingAcquires: the waiting callers, in order
    aqPendingCreates,  \* the number of pool.pendingCreates
    aqTicks,       \* the callbacks queued with nextTick, in order
    aqCreated,     \* the number of resources created so far
    aqCaller,      \* per caller: its acquire's state, resource and error
    aqReleased,    \* what the latest release returned, "none" before
    \* validateMimeType
    mmPc,          \* position of the validateMimeType call
    mmMime,        \* mimeType, split at the slashes
    mmAllowed,     \* allowedMimeTypes, each split at the slashes
    mmResult,      \* "none", "true" or the error thrown
    \* fileUploadFromRequest
    rqPc,          \* position of the fileUploadFromRequest call
    rqReq,         \* the request and the options
    rqResult,      \* the error thrown and its cause, the userMetadata returned
    \* TenantConnection objects
    cnConns,       \* the connections constructed, in order
    cnCall,        \* the last method called and the connection it was called on
    cnScope,       \* the role set by the last setScope, "none" before
    \* completeMultipartUpload
    muPc,          \* position of the completeMultipartUpload call
    muParts,       \* the part numbers of the parts list the caller supplies
    muBody,        \* the part numbers of the request body, in its order
    muAssembled,   \* the part numbers of the object assembled, in its order
    muResult,      \* "none", "completed" or the error thrown
    \* TenantConnection.create and dispose
    dsMultitenant, \* the isMultitenant setting
    dsCache,       \* connections: connection string -> pool, NoPool when absent
    dsPools,       \* the pools built: connection string, destroys, whether cached
    dsConns,       \* the connections returned by create
    \* base32
    b32Pc,         \* "call", "encoded", "decoded"
    b32Buffer,     \* the bytes given to encode
    b32Text,       \* the characters encode returned
    b32Decoded     \* the bytes decode returned

uploaderVars == <<pc, entry, isUpsert, version, currentObj, err, raised, mutated,
                  webhookFailed, rows, lock, blobs, backendCalls, sends, events,
                  minted, uploadStarted, uploadSuccess>>

copyVars == <<cpPc, cpReq, cpDirective>>

signVars == <<sgPc, sgReq, sgLive, sgHeaders, sgQuery, sgHashed, sgSigned,
              sgExpires, sgCalls, sgResult>>

deleteVars == <<dlPc, dlKeys, dlIssued, dlQueue, dlStarted, dlSettled, dlFailed,
                dlTaskRejected>>

txVars == <<txPc, txOpts, txAttempts, txRetried, txTnx, txError>>

poolVars == <<plMultitenant, plExternal, plCache, plAge, plPools, plPrev, plPair,
              plStop>>

acquireVars == <<aqMax, aqCustom, aqUsed, aqFree, aqPendingAcquires,
                 aqPendingCreates, aqTicks, aqCreated, aqCaller, aqReleased>>

mimeVars == <<mmPc, mmMime, mmAllowed, mmResult>>

requestVars == <<rqPc, rqReq, rqResult>>

connVars == <<cnConns, cnCall, cnScope>>

multipartVars == <<muPc, muParts, muBody, muAssembled, muResult>>

disposeVars == <<dsMultitenant, dsCache, dsPools, dsConns>>

base32Vars == <<b32Pc, b32Buffer, b32Text, b32Decoded>>

vars == <<uploaderVars, copyVars, signVars, deleteVars, txVars, poolVars, acquireVars,
          mimeVars, requestVars, connVars, multipartVars, disposeVars, base32Vars>>

----------------------------------------------------------------------------
\* canUpload: a request that is not an upsert probes with createObject.
ShouldCreateObject(upsert) == ~upsert

\* The probe of canUpload: an insert is rejected when the row exists, and
\* the row-level policy may reject either mutation.
ProbeError(upsert, rs, denied) ==
    IF denied THEN "PolicyDenied"
    ELSE IF ShouldCreateObject(upsert) /\ rs # {} THEN "Duplicate"
    ELSE "none"

\* prepareUpload awaits canUpload: a rejected probe ends prepareUpload.
CanUploadThrowsIgnored(e) == FALSE
CanUploadThrows(e) == e # "none"

\* upload: where the call continues once uploadObject has settled.
UploadNext(outcome) == IF outcome = "ok" THEN "lockwait" ELSE "uploadCatch"

\* upload: the error thrown inside the try block.
UploadError(outcome) ==
    CASE outcome = "ok" -> "none"
      [] outcome = "truncated" -> "EntityTooLarge"
      [] outcome = "error" -> "BackendError"
      [] outcome = "aborted" -> "Aborted"

\* completeUpload: the first statement of the transaction waits for the lock.
FirstTxStepNoLock == "find"
FirstTxStep == "lockwait"

\* upsertObject: insert, or replace the row of the same (bucket, name).
UpsertObject(rs, v) == {v}

\* findObject with dontErrorOnEmpty: the row of (bucket, name), if any.
FindObject(rs) == IF rs = {} THEN NoVersion ELSE CHOOSE v \in rs : TRUE

\* completeUpload: the deletion of the previous revision.
PriorDeleteOfNew(p, cur, v) ==
    IF cur # NoVersion /\ cur # v
    THEN {[by |-> p, version |-> v, site |-> "prior"]}
    ELSE {}
PriorDeleteAlways(p, cur, v) ==
    IF cur # NoVersion
    THEN {[by |-> p, version |-> cur, site |-> "prior"]}
    ELSE {}
PriorDelete(p, cur, v) ==
    IF cur # NoVersion /\ cur # v
    THEN {[by |-> p, version |-> cur, site |-> "prior"]}
    ELSE {}

\* completeUpload: the event class of the webhook.
EventKind(upsert, isNew) == IF upsert /\ ~isNew THEN "put" ELSE "post"

\* completeUpload: sendWebhook(...).catch(...) resolves whatever sendWebhook does.
WebhookSettlesUncaught(ok) == ok
WebhookSettles(ok) == TRUE

\* The compensating delete in the catch blocks of upload and completeUpload.
Compensation(p, v, s) == [by |-> p, version |-> v, site |-> s]

\* upload: where a call goes once the catch block of completeUpload has
\* thrown; upload returns the promise of completeUpload without awaiting
\* it, so the rejection does not enter upload's own catch block.
AfterCompleteCatchAwaited(en) == IF en = "upload" THEN "uploadCatch" ELSE "failed"
AfterCompleteCatch(en) == "failed"

\* The object lock is exclusive: a wait ends when no transaction holds it.
LockAvailable(l) == l = NoHolder

\* Rolling back or committing the transaction releases its advisory lock.
Release(l, p) == IF l = p THEN NoHolder ELSE l

----------------------------------------------------------------------------
UploaderInit ==
    /\ pc = [p \in Procs |-> "idle"]
    /\ entry = [p \in Procs |-> "upload"]
    /\ isUpsert = [p \in Procs |-> FALSE]
    /\ version = [p \in Procs |-> NoVersion]
    /\ currentObj = [p \in Procs |-> NoVersion]
    /\ err = [p \in Procs |-> "none"]
    /\ raised = [p \in Procs |-> "none"]
    /\ mutated = {}
    /\ webhookFailed = {}
    /\ rows = {}
    /\ lock = NoHolder
    /\ blobs = {}
    /\ backendCalls = {}
    /\ sends = {}
    /\ events = {}
    /\ minted = 0
    /\ uploadStarted = 0
    /\ uploadSuccess = 0

\* Call p is the next one to be made: the calls before it have been made.
IsNextCall(p) == \A q \in Procs : q < p => pc[q] # "idle"

\* upload(request) is called: prepareUpload calls canUpload, which awaits the probe.
Upload(p, upsert) ==
    /\ pc[p] = "idle"
    /\ IsNextCall(p)
    /\ pc' = [pc EXCEPT ![p] = "probe"]
    /\ entry' = [entry EXCEPT ![p] = "upload"]
    /\ isUpsert' = [isUpsert EXCEPT ![p] = upsert]
    /\ UNCHANGED <<version, currentObj, err, raised, mutated, webhookFailed,
                   rows, lock, blobs, backendCalls, sends, events, minted,
                   uploadStarted, uploadSuccess>>

\* The probe settles.  Rejected: upload() rejects, outside its try block.
\* Passed: the counter is incremented, the version is minted and
\* backend.uploadObject is called.
ProbeSettled(p, denied) ==
    /\ pc[p] = "probe"
    /\ LET e == ProbeError(isUpsert[p], rows, denied) IN
       /\ err' = [err EXCEPT ![p] = e]
       /\ IF CanUploadThrows(e)
          THEN /\ pc' = [pc EXCEPT ![p] = "failed"]
               /\ raised' = [raised EXCEPT ![p] = e]
               /\ UNCHANGED <<version, minted, uploadStarted, backendCalls>>
          ELSE /\ pc' = [pc EXCEPT ![p] = "write"]
               /\ uploadStarted' = uploadStarted + 1
               /\ minted' = minted + 1
               /\ version' = [version EXCEPT ![p] = minted + 1]
               /\ backendCalls' = backendCalls \cup {p}
               /\ UNCHANGED raised
    /\ UNCHANGED <<entry, isUpsert, currentObj, mutated, webhookFailed, rows,
                   lock, blobs, sends, events, uploadSuccess>>

\* backend.uploadObject settles.  Written and not truncated: completeUpload
\* is called and its transaction waits for the object lock.  Otherwise the
\* catch block of upload calls ObjectAdminDelete.send.
UploadObjectSettled(p, outcome) ==
    /\ pc[p] = "write"
    /\ blobs' = IF outcome \in {"ok", "truncated"} THEN blobs \cup {version[p]} ELSE blobs
    /\ err' = [err EXCEPT ![p] = UploadError(outcome)]
    /\ pc' = [pc EXCEPT ![p] =
                IF UploadNext(outcome) = "lockwait" THEN FirstTxStep ELSE "uploadCatch"]
    /\ UNCHANGED <<entry, isUpsert, version, currentObj, raised, mutated,
                   webhookFailed, rows, lock, backendCalls, sends, events,
                   minted, uploadStarted, uploadSuccess>>

\* completeUpload is called by its other callers (the completion of a
\* resumable or S3-protocol upload) for a version v that the row already
\* holds: a completion that is repeated.  A completion with a new version
\* behaves as the one upload() starts after its write.
CompleteUpload(p, upsert, v) ==
    /\ pc[p] = "idle"
    /\ IsNextCall(p)
    /\ v \in rows
    /\ entry' = [entry EXCEPT ![p] = "completeUpload"]
    /\ isUpsert' = [isUpsert EXCEPT ![p] = upsert]
    /\ version' = [version EXCEPT ![p] = v]
    /\ pc' = [pc EXCEPT ![p] = FirstTxStep]
    /\ UNCHANGED <<currentObj, err, raised, mutated, webhookFailed, rows, lock,
                   blobs, backendCalls, sends, events, minted, uploadStarted,
                   uploadSuccess>>

\* The transaction of p fails with e: it is rolled back, which releases the
\* lock, and the catch block of completeUpload calls ObjectAdminDelete.send.
Rollback(p, e) ==
    /\ pc' = [pc EXCEPT ![p] = "completeCatch"]
    /\ err' = [err EXCEPT ![p] = e]
    /\ lock' = Release(lock, p)

\* waitObjectLock resolves: the lock is free and p takes it; findObject is called.
WaitObjectLock(p) ==
    /\ pc[p] = "lockwait"
    /\ LockAvailable(lock)
    /\ lock' = p
    /\ pc' = [pc EXCEPT ![p] = "find"]
    /\ UNCHANGED <<entry, isUpsert, version, currentObj, err, raised, mutated,
                   webhookFailed, rows, blobs, backendCalls, sends, events,
                   minted, uploadStarted, uploadSuccess>>

\* waitObjectLock rejects: another transaction held the lock for the whole wait.
LockTimeout(p) ==
    /\ pc[p] = "lockwait"
    /\ ~LockAvailable(lock)
    /\ lock # p
    /\ Rollback(p, "LockTimeout")
    /\ UNCHANGED <<entry, isUpsert, version, currentObj, raised, mutated,
                   webhookFailed, rows, blobs, backendCalls, sends, events,
                   minted, uploadStarted, uploadSuccess>>

\* findObject settles; resolved: upsertObject is called (the metadata
\* mutation is issued).
FindObjectSettled(p, ok) ==
    /\ pc[p] = "find"
    /\ IF ok
       THEN /\ currentObj' = [currentObj EXCEPT ![p] = FindObject(rows)]
            /\ pc' = [pc EXCEPT ![p] = "upsert"]
            /\ mutated' = mutated \cup {p}
            /\ UNCHANGED <<err, lock>>
       ELSE /\ Rollback(p, "DatabaseError")
            /\ UNCHANGED <<currentObj, mutated>>
    /\ UNCHANGED <<entry, isUpsert, version, raised, webhookFailed, rows,
                   blobs, backendCalls, sends, events, minted, uploadStarted,
                   uploadSuccess>>

\* upsertObject settles; resolved: ObjectAdminDelete.send (when a previous
\* revision is superseded) and sendWebhook are called and both are awaited.
UpsertObjectSettled(p, ok) ==
    /\ pc[p] = "upsert"
    /\ IF ok
       THEN /\ pc' = [pc EXCEPT ![p] = "events"]
            /\ UNCHANGED <<err, lock>>
       ELSE /\ Rollback(p, "DatabaseError")
    /\ UNCHANGED <<entry, isUpsert, version, currentObj, raised, mutated,
                   webhookFailed, rows, blobs, backendCalls, sends, events,
                   minted, uploadStarted, uploadSuccess>>

\* Promise.all(events) settles.  deleteOk: the queue accepted the deletion
\* of the previous revision; webhookOk: it accepted the webhook.  Resolved:
\* the success counter is incremented, the callback returns and the
\* transaction commits.
EventsSettled(p, deleteOk, webhookOk) ==
    /\ pc[p] = "events"
    /\ LET prior == PriorDelete(p, currentObj[p], version[p])
           allOk == (prior = {} \/ deleteOk) /\ WebhookSettles(webhookOk)
       IN
       /\ prior = {} => deleteOk
       /\ sends' = IF deleteOk THEN sends \cup prior ELSE sends
       /\ events' = IF webhookOk
                    THEN events \cup {[by |-> p, version |-> version[p],
                                       kind |-> EventKind(isUpsert[p], currentObj[p] = NoVersion)]}
                    ELSE events
       /\ webhookFailed' = IF webhookOk THEN webhookFailed ELSE webhookFailed \cup {p}
       /\ IF allOk
          THEN /\ pc' = [pc EXCEPT ![p] = "commit"]
               /\ uploadSuccess' = uploadSuccess + 1
               /\ UNCHANGED <<err, lock>>
          ELSE /\ Rollback(p, IF prior = {} \/ deleteOk THEN "WebhookError" ELSE "QueueError")
               /\ UNCHANGED uploadSuccess
    /\ UNCHANGED <<entry, isUpsert, version, currentObj, raised, mutated, rows,
                   blobs, backendCalls, minted, uploadStarted>>

\* The commit settles; resolved: the row is visible, the lock is released
\* and the call returns.
CommitSettled(p, ok) ==
    /\ pc[p] = "commit"
    /\ IF ok
       THEN /\ rows' = UpsertObject(rows, version[p])
            /\ lock' = Release(lock, p)
            /\ pc' = [pc EXCEPT ![p] = "done"]
            /\ UNCHANGED err
       ELSE /\ Rollback(p, "CommitFailed")
            /\ UNCHANGED rows
    /\ UNCHANGED <<entry, isUpsert, version, currentObj, raised, mutated,
                   webhookFailed, blobs, backendCalls, sends, events, minted,
                   uploadStarted, uploadSuccess>>

\* The ObjectAdminDelete.send awaited in the catch block of completeUpload
\* settles.  upload() returns the promise of completeUpload without
\* awaiting it, so its own catch block does not run for this rejection.
CompleteCatchSettled(p, ok) ==
    /\ pc[p] = "completeCatch"
    /\ pc' = [pc EXCEPT ![p] = AfterCompleteCatch(entry[p])]
    /\ sends' = IF ok THEN sends \cup {Compensation(p, version[p], "completeUpload")} ELSE sends
    /\ raised' = [raised EXCEPT ![p] = IF ok THEN err[p] ELSE "QueueError"]
    /\ UNCHANGED <<entry, isUpsert, version, currentObj, err, mutated,
                   webhookFailed, rows, lock, blobs, backendCalls, events,
                   minted, uploadStarted, uploadSuccess>>

\* The ObjectAdminDelete.send awaited in the catch block of upload settles.
UploadCatchSettled(p, ok) ==
    /\ pc[p] = "uploadCatch"
    /\ pc' = [pc EXCEPT ![p] = "failed"]
    /\ sends' = IF ok THEN sends \cup {Compensation(p, version[p], "upload")} ELSE sends
    /\ raised' = [raised EXCEPT ![p] = IF ok THEN err[p] ELSE "QueueError"]
    /\ UNCHANGED <<entry, isUpsert, version, currentObj, err, mutated,
                   webhookFailed, rows, lock, blobs, backendCalls, events,
                   minted, uploadStarted, uploadSuccess>>

UploaderNext ==
    \E p \in Procs :
        \/ \E upsert \in BOOLEAN : Upload(p, upsert)
        \/ \E denied \in BOOLEAN : ProbeSettled(p, denied)
        \/ \E outcome \in {"ok", "truncated", "error", "aborted"} : UploadObjectSettled(p, outcome)
        \/ \E upsert \in BOOLEAN, v \in Versions : CompleteUpload(p, upsert, v)
        \/ WaitObjectLock(p)
        \/ LockTimeout(p)
        \/ \E ok \in BOOLEAN : FindObjectSettled(p, ok)
        \/ \E ok \in BOOLEAN : UpsertObjectSettled(p, ok)
        \/ \E deleteOk \in BOOLEAN, webhookOk \in BOOLEAN : EventsSettled(p, deleteOk, webhookOk)
        \/ \E ok \in BOOLEAN : CommitSettled(p, ok)
        \/ \E ok \in BOOLEAN : CompleteCatchSettled(p, ok)
        \/ \E ok \in BOOLEAN : UploadCatchSettled(p, ok)

----------------------------------------------------------------------------
\* The ObjectAdminDelete jobs call p has had accepted.
SendsBy(p) == {s \in sends : s.by = p}

\* Call p is inside the body of its transaction, past waitObjectLock.
InTransactionBody(p) == pc[p] \in {"find", "upsert", "events", "commit"}

C2_UploadPostcondition ==
    [][\A p \in Procs :
          entry[p] = "upload" /\ pc[p] # "done" /\ pc'[p] = "done" =>
              /\ rows' = {version'[p]}
              /\ version'[p] \in blobs'
              /\ \A s \in sends' : s.version # version'[p]]_vars

\* An upload has returned successfully while another upload, which wrote
\* its own revision concurrently, waits for the lock.
C2_Witness ==
    \E p, q \in Procs :
        /\ p # q
        /\ entry[p] = "upload" /\ pc[p] = "done"
        /\ entry[q] = "upload" /\ pc[q] = "lockwait"
        /\ version[q] \in blobs
        /\ rows = {version[p]}

\* C3: when a completion commits, the row becomes the new version V2; the
\* deletions the call has scheduled are exactly the one of the row's former
\* version V1 if a row existed with V1 # V2, and none if no row existed or
\* it held V2 already.
C3_PriorRevisionDeleted ==
    [][\A p \in Procs :
          pc[p] = "commit" /\ pc'[p] = "done" =>
              /\ rows' = {version[p]}
              /\ IF rows # {} /\ rows # {version[p]}
                 THEN /\ {s.version : s \in SendsBy(p)'} = rows
                      /\ \A s \in SendsBy(p)' : s.site = "prior"
                 ELSE SendsBy(p)' = {}]_vars

\* A completion has replaced version V1 by V2 and scheduled the deletion of V1.
C3_Witness ==
    \E p \in Procs :
        /\ pc[p] = "done"
        /\ currentObj[p] # NoVersion
        /\ currentObj[p] # version[p]
        /\ rows = {version[p]}
        /\ SendsBy(p) = {[by |-> p, version |-> currentObj[p], site |-> "prior"]}

\* The compensating deletes call p has had accepted.
CompensationsBy(p) == {s \in SendsBy(p) : s.site # "prior"}

\* C4: an upload whose body was truncated fails with EntityTooLarge, a
\* deletion is scheduled for exactly the revision it wrote, and it never
\* enters completeUpload: it takes no lock and issues no upsert.
C4_TruncatedUpload ==
    \A p \in Procs :
        err[p] = "EntityTooLarge" =>
            /\ pc[p] \in {"uploadCatch", "failed"}
            /\ lock # p
            /\ p \notin mutated
            /\ pc[p] = "failed" =>
                  /\ raised[p] = "EntityTooLarge"
                  /\ SendsBy(p) = {Compensation(p, version[p], "upload")}

\* C5: an upload whose permission probe is rejected has failed with the
\* probe's error without calling backend.uploadObject, without a version
\* token and without a compensating delete, and the upload-started counter
\* counts exactly the uploads whose probe passed.
C5_ProbeRejected ==
    /\ \A p \in Procs :
          err[p] \in ProbeErrors =>
              /\ pc[p] = "failed"
              /\ raised[p] = err[p]
              /\ p \notin backendCalls
              /\ version[p] = NoVersion
              /\ version[p] \notin blobs
              /\ SendsBy(p) = {}
    /\ uploadStarted = Cardinality({p \in Procs : entry[p] = "upload"
                                       /\ pc[p] \notin {"idle", "probe"}
                                       /\ err[p] \notin ProbeErrors})

\* One upload was rejected by its probe while another one passed it.
C5_Witness ==
    \E p, q \in Procs :
        /\ pc[p] = "failed"
        /\ err[p] \in ProbeErrors
        /\ q \in backendCalls
        /\ uploadStarted = 1

\* C6: an upload that has failed at or after its blob write has had a
\* compensating delete issued for its own version and for no other, and
\* its caller has received the error that made it fail.
C6_CompensatedOriginalError ==
    \A p \in Procs :
        entry[p] = "upload" /\ pc[p] = "failed" /\ err[p] \notin ProbeErrors =>
            /\ CompensationsBy(p) # {}
            /\ \A s \in CompensationsBy(p) : s.version = version[p]
            /\ raised[p] = err[p]

\* C7: when the transaction of completeUpload fails, the committed row is
\* left as it was, and when the call then ends, the new version has been
\* compensating-deleted and the caller receives the transaction's error.
C7_FailedTransaction ==
    [][\A p \in Procs :
          /\ pc[p] # "completeCatch" /\ pc'[p] = "completeCatch" => rows' = rows
          /\ pc[p] = "completeCatch" /\ pc'[p] = "failed" =>
                /\ rows' = rows
                /\ Compensation(p, version[p], "completeUpload") \in sends'
                /\ raised'[p] = err[p]]_vars

\* The calls made so far are uploads and none of them is in progress.
UploadsAtRest ==
    \A p \in Procs : entry[p] = "upload" /\ pc[p] \in {"idle", "done", "failed"}

\* C8: after any sequence of successful and failed uploads the object has
\* at most one metadata row, and the version the row holds is a blob
\* revision that was written and that has no deletion scheduled.
C8_RowPointsAtLiveBlob ==
    UploadsAtRest =>
        /\ Cardinality(rows) <= 1
        /\ \A v \in rows :
              /\ v \in blobs
              /\ \A s \in sends : s.version # v

\* C9: the lock is not held during the blob write, the row is read and
\* upserted only under the lock, and a creation/update event has been
\* emitted only for a call whose metadata row is committed.
C9_StepOrder ==
    /\ \A p \in Procs : pc[p] \in {"probe", "write", "uploadCatch"} => lock # p
    /\ \A p \in Procs : pc[p] \in {"find", "upsert"} => lock = p
    /\ \A e \in events : pc[e.by] = "done"

\* C10: a call whose webhook emission failed does not fail because of it:
\* unless something else fails, it goes on to commit, it returns
\* successfully with its version in the row, and no compensating delete
\* is issued for it.
C10_WebhookFailureAbsorbed ==
    \A p \in webhookFailed :
        /\ err[p] # "WebhookError"
        /\ err[p] = "none" =>
              /\ pc[p] \in {"commit", "done"}
              /\ CompensationsBy(p) = {}
        /\ pc[p] = "done" => raised[p] = "none"

\* A call whose webhook emission failed has committed its version and returned.
C10_Witness ==
    \E p \in webhookFailed :
        /\ pc[p] = "done"
        /\ rows = {version[p]}
        /\ raised[p] = "none"
        /\ CompensationsBy(p) = {}

\* C11: the webhook of an upload is the creation (post) event exactly when
\* no metadata row existed before its upsert, and the update (put) event
\* exactly when a row existed, whatever isUpsert is.
C11_EventKindByPriorRow ==
    \A e \in events :
        entry[e.by] = "upload" =>
            /\ e.kind = "post" <=> currentObj[e.by] = NoVersion
            /\ e.kind = "put" <=> currentObj[e.by] # NoVersion

\* C28: an upload submitted with isUpsert = false has not committed over a
\* metadata row that existed when it upserted.
C28_NoReplaceWithoutUpsert ==
    \A p \in Procs :
        entry[p] = "upload" /\ ~isUpsert[p] /\ pc[p] = "done" =>
            currentObj[p] = NoVersion

\* C29: a call that has failed has no deletion of the previously committed
\* version scheduled.
C29_PriorDeleteOnlyOnCommit ==
    \A s \in sends : s.site = "prior" => pc[s.by] # "failed"

\* C30: an upload that failed after its version was minted has had at most
\* one compensating delete accepted, for its own version, and exactly one
\* unless the queue rejected it, the caller then receiving the queue's
\* error; an upload that succeeded, or that failed before its version was
\* minted, has had none.
C30_OneCompensation ==
    \A p \in Procs :
        entry[p] = "upload" =>
            /\ Cardinality(CompensationsBy(p)) <= 1
            /\ \A s \in CompensationsBy(p) : s.version = version[p]
            /\ pc[p] = "failed" /\ version[p] # NoVersion /\ CompensationsBy(p) = {} =>
                  raised[p] = "QueueError"
            /\ pc[p] = "done" \/ version[p] = NoVersion => CompensationsBy(p) = {}

\* An upload failed inside completeUpload and was compensated once, by
\* completeUpload.
C30_Witness ==
    \E p \in Procs :
        /\ entry[p] = "upload"
        /\ pc[p] = "failed"
        /\ CompensationsBy(p) = {Compensation(p, version[p], "completeUpload")}

----------------------------------------------------------------------------
(***************************************************************************)
(* GCSBackend.copyObject.  A key is the sequence of its path segments, so  *)
(* that joining with "/" is concatenation.                                 *)
(***************************************************************************)
NoSegment == ""
BucketName == "bucket"
CopyKeys == {<<"a">>, <<"c">>, <<"a", "1">>, <<"bucket", "a">>}
CopyVersions == {NoSegment, "1"}

\* withOptionalVersion: the version is appended when one is given.
withOptionalVersion(key, v) == IF v = NoSegment THEN key ELSE Append(key, v)

\* copyObject: the object name of the destination.
CopyObjectName(req) == withOptionalVersion(req.destination, req.destinationVersion)

\* copyObject: the X-Goog-Copy-Source header.
CopySource(req) == <<BucketName>> \o withOptionalVersion(req.source, req.version)

\* copyObject: the X-Goog-Metadata-Directive header.
MetadataDirective(req) ==
    IF CopyObjectName(req) # CopySource(req) THEN "COPY" ELSE "REPLACE"

CopyIdle ==
    /\ cpPc = "idle"
    /\ cpReq = [source |-> <<"a">>, version |-> NoSegment,
                destination |-> <<"a">>, destinationVersion |-> NoSegment]
    /\ cpDirective = "none"

\* copyObject is about to be called with any keys and versions.
CopyInit ==
    /\ cpPc = "call"
    /\ cpReq \in [source : CopyKeys, version : CopyVersions,
                  destination : CopyKeys, destinationVersion : CopyVersions]
    /\ cpDirective = "none"

\* copyObject sends the PUT request.
CopyObject ==
    /\ cpPc = "call"
    /\ cpDirective' = MetadataDirective(cpReq)
    /\ cpPc' = "sent"
    /\ UNCHANGED cpReq

\* The response arrives: an error in its body is thrown, otherwise the
\* metadata is built from it.
CopyResponded(ok) ==
    /\ cpPc = "sent"
    /\ cpPc' = IF ok THEN "returned" ELSE "thrown"
    /\ UNCHANGED <<cpReq, cpDirective>>

CopyNext ==
    \/ CopyObject
    \/ \E ok \in BOOLEAN : CopyResponded(ok)

\* C20: copyObject has sent the directive REPLACE exactly when the source
\* key with its version and the destination key with its version are the
\* same, and COPY otherwise.
C20_ReplaceOnSameKey ==
    cpPc \in {"sent", "returned", "thrown"} =>
        /\ cpDirective \in {"COPY", "REPLACE"}
        /\ cpDirective = "REPLACE" <=>
              withOptionalVersion(cpReq.source, cpReq.version)
                 = withOptionalVersion(cpReq.destination, cpReq.destinationVersion)

----------------------------------------------------------------------------
(***************************************************************************)
(* getSignedUrl.  Header and parameter names stand for the headers and     *)
(* the parameters; a Headers object keeps its names lower-cased and        *)
(* iterates in sorted order.                                               *)
(***************************************************************************)
DefaultExpiresIn == 900
MaxExpiresIn == 604800

SigningParams == <<"X-Goog-Algorithm", "X-Goog-Credential", "X-Goog-Date",
                   "X-Goog-Expires", "X-Goog-SignedHeaders">>

\* The names in the order of their UTF-16 code units: upper case first.
NameOrder == <<"X-Goog-Algorithm", "X-Goog-Credential", "X-Goog-Date",
               "X-Goog-Expires", "X-Goog-SignedHeaders", "X-Goog-Signature",
               "content-type", "host", "uploadId", "x-goog-meta-a", "x-goog-meta-b">>

NameRank(n) == CHOOSE i \in 1..Len(NameOrder) : NameOrder[i] = n

\* The names of a set as a sorted sequence.
RECURSIVE SortedSeq(_)
SortedSeq(S) ==
    IF S = {} THEN <<>>
    ELSE LET n == CHOOSE x \in S : \A y \in S : NameRank(x) <= NameRank(y)
         IN <<n>> \o SortedSeq(S \ {n})

\* URLSearchParams.sort: a stable sort by name.
RECURSIVE SortParams(_)
SortParams(q) ==
    IF q = <<>> THEN <<>>
    ELSE LET i == CHOOSE k \in 1..Len(q) :
                     /\ \A j \in 1..Len(q) : NameRank(q[k]) <= NameRank(q[j])
                     /\ \A j \in 1..(k - 1) : NameRank(q[j]) # NameRank(q[k])
         IN <<q[i]>> \o SortParams(SubSeq(q, 1, i - 1) \o SubSeq(q, i + 1, Len(q)))

\* getSignedUrl: the signature is appended to the sorted parameters.
WithSignatureSorted(q) == SortParams(Append(q, "X-Goog-Signature"))
WithSignature(q) == Append(q, "X-Goog-Signature")

\* getSignedUrl: the Host header is set when the request has none.
WithHost(hs) == hs \cup {"host"}

\* getSignedUrl: without the option every header is unhoistable.
Unhoistable(req) ==
    IF req.hasUnhoistable THEN req.unhoistable ELSE WithHost(req.headers)

\* getSignedUrl: the headers moved to the query string, over a copy of the entries.
Hoisted(req) == SelectSeq(SortedSeq(WithHost(req.headers)),
                          LAMBDA h : h \notin Unhoistable(req))

\* getSignedUrl: the loop deleting the unsignable headers while iterating
\* headers.keys(); i is the iterator's index.  An iterator that sees the
\* deletions goes on at index i + 1 of the shortened list.
RECURSIVE DropUnsignable(_, _, _, _)
DropUnsignable(hs, i, req, live) ==
    IF i > Len(hs) THEN hs
    ELSE IF hs[i] \in req.unsignable /\ hs[i] \notin req.signable
         THEN LET rest == SubSeq(hs, 1, i - 1) \o SubSeq(hs, i + 1, Len(hs))
              IN IF live THEN DropUnsignable(rest, i + 1, req, live)
                         ELSE DropUnsignable(rest, i, req, live)
         ELSE DropUnsignable(hs, i + 1, req, live)

\* getSignedUrl: options.expiresIn ?? 900.
ExpiresIn(req) == IF req.hasExpiresIn THEN req.expiresIn ELSE DefaultExpiresIn

\* getSignedUrl: the validation of the expiry.
ExpiresTooLongInclusive(e) == e >= MaxExpiresIn
ExpiresTooLong(e) == e > MaxExpiresIn

SignRequests ==
    [query : {<<>>, <<"uploadId">>},     \* the parameters of request.url
     headers : SUBSET {"content-type", "x-goog-meta-a", "x-goog-meta-b"},
     hasUnhoistable : BOOLEAN,
     unhoistable : {{"host"}, {"host", "content-type"}},
     unsignable : {{}, {"x-goog-meta-a", "x-goog-meta-b"}},
     signable : {{}, {"x-goog-meta-a"}},
     hasExpiresIn : BOOLEAN,
     expiresIn : {0, MaxExpiresIn - 1, MaxExpiresIn, MaxExpiresIn + 1, 2 * MaxExpiresIn}]

SignIdle ==
    /\ sgPc = "idle"
    /\ sgReq = [query |-> <<>>, headers |-> {}, hasUnhoistable |-> FALSE, unhoistable |-> {"host"},
                unsignable |-> {}, signable |-> {}, hasExpiresIn |-> FALSE,
                expiresIn |-> 0]
    /\ sgLive = FALSE
    /\ sgHeaders = <<>>
    /\ sgQuery = <<>>
    /\ sgHashed = <<>>
    /\ sgSigned = <<>>
    /\ sgExpires = 0
    /\ sgCalls = <<>>
    /\ sgResult = "none"

\* getSignedUrl is about to be called.
SignInit ==
    /\ sgPc = "call"
    /\ sgReq \in {r \in SignRequests :
                    /\ ~r.hasUnhoistable => r.unhoistable = {"host"}
                    /\ ~r.hasExpiresIn => r.expiresIn = 0}
    /\ sgLive \in BOOLEAN
    /\ sgHeaders = <<>>
    /\ sgQuery = <<>>
    /\ sgHashed = <<>>
    /\ sgSigned = <<>>
    /\ sgExpires = 0
    /\ sgCalls = <<>>
    /\ sgResult = "none"

\* getSignedUrl up to its first await: the headers are hoisted and
\* filtered, the expiry is validated and client.getCredentials is called.
GetSignedUrl ==
    /\ sgPc = "call"
    /\ LET hoisted == Hoisted(sgReq)
           kept == SelectSeq(SortedSeq(WithHost(sgReq.headers)),
                             LAMBDA h : h \in Unhoistable(sgReq))
       IN /\ sgQuery' = sgReq.query \o hoisted
          /\ sgHeaders' = DropUnsignable(kept, 1, sgReq, sgLive)
    /\ IF ExpiresTooLong(ExpiresIn(sgReq))
       THEN /\ sgPc' = "thrown"
            /\ sgResult' = "RangeError"
            /\ UNCHANGED sgCalls
       ELSE /\ sgPc' = "credentials"
            /\ sgCalls' = Append(sgCalls, "getCredentials")
            /\ UNCHANGED sgResult
    /\ UNCHANGED <<sgReq, sgLive, sgHashed, sgSigned, sgExpires>>

\* getCredentials settles; resolved: the signing parameters are appended,
\* the parameters are sorted, the canonical request is hashed and
\* client.sign is called.
CredentialsSettled(ok) ==
    /\ sgPc = "credentials"
    /\ IF ok
       THEN /\ sgSigned' = sgHeaders
            /\ sgExpires' = ExpiresIn(sgReq)
            /\ sgQuery' = SortParams(sgQuery \o SigningParams)
            /\ sgHashed' = sgQuery'
            /\ sgCalls' = Append(sgCalls, "sign")
            /\ sgPc' = "sign"
            /\ UNCHANGED sgResult
       ELSE /\ sgPc' = "thrown"
            /\ sgResult' = "CredentialsError"
            /\ UNCHANGED <<sgSigned, sgExpires, sgQuery, sgHashed, sgCalls>>
    /\ UNCHANGED <<sgReq, sgLive, sgHeaders>>

\* sign settles; resolved: the signature is appended and the URL returned.
SignSettled(ok) ==
    /\ sgPc = "sign"
    /\ IF ok
       THEN /\ sgQuery' = WithSignature(sgQuery)
            /\ sgPc' = "returned"
            /\ sgResult' = "url"
       ELSE /\ sgPc' = "thrown"
            /\ sgResult' = "SignError"
            /\ UNCHANGED sgQuery
    /\ UNCHANGED <<sgReq, sgLive, sgHeaders, sgHashed, sgSigned, sgExpires, sgCalls>>

SignNext ==
    \/ GetSignedUrl
    \/ \E ok \in BOOLEAN : CredentialsSettled(ok)
    \/ \E ok \in BOOLEAN : SignSettled(ok)

\* C19: with an expiry of at most 604800 (604800 included) getSignedUrl
\* never fails validation, it returns a URL whenever the signing identity
\* answers, and the URL carries the expiry as given; with a larger expiry
\* it throws RangeError with no call made on the signing identity.
C19_ExpiryValidated ==
    LET e == ExpiresIn(sgReq) IN
    /\ e > MaxExpiresIn /\ sgPc # "call" =>
          /\ sgPc = "thrown"
          /\ sgResult = "RangeError"
          /\ sgCalls = <<>>
    /\ e <= MaxExpiresIn =>
          /\ sgResult # "RangeError"
          /\ sgPc = "thrown" => sgResult \in {"CredentialsError", "SignError"}
          /\ sgPc = "returned" => sgResult = "url" /\ sgExpires = e
          /\ sgPc \in {"sign", "returned"} => sgExpires = e

\* An expiry of 604801 has been rejected before any signing call.
C19_Witness ==
    /\ sgReq.hasExpiresIn
    /\ sgReq.expiresIn = MaxExpiresIn + 1
    /\ sgPc = "thrown"
    /\ sgResult = "RangeError"
    /\ sgCalls = <<>>

\* The names of a sequence.
Names(q) == {q[i] : i \in 1..Len(q)}

\* The parameters are in the order of their names.
InNameOrder(q) == \A i, j \in 1..Len(q) : i < j => NameRank(q[i]) <= NameRank(q[j])

\* C26: the parameters hashed with the canonical request hold the
\* parameters of the request, the hoisted headers and the five signing
\* parameters, in lexicographic order of their names; the returned URL
\* carries them in that order followed by the signature as last parameter.
C26_SortedThenSignature ==
    /\ sgPc \in {"sign", "returned"} =>
          /\ Names(sgHashed) = Names(sgReq.query) \cup Names(Hoisted(sgReq))
                                  \cup Names(SigningParams)
          /\ Len(sgHashed) = Len(sgReq.query) + Len(Hoisted(sgReq)) + Len(SigningParams)
          /\ InNameOrder(sgHashed)
    /\ sgPc = "sign" => sgQuery = sgHashed
    /\ sgPc = "returned" =>
          /\ Len(sgQuery) = Len(sgHashed) + 1
          /\ SubSeq(sgQuery, 1, Len(sgHashed)) = sgHashed
          /\ sgQuery[Len(sgQuery)] = "X-Goog-Signature"

\* A URL is returned whose hoisted headers and own parameter follow the
\* signing parameters and precede the signature.
C26_Witness ==
    /\ sgPc = "returned"
    /\ sgQuery = SigningParams \o <<"uploadId", "x-goog-meta-a", "x-goog-meta-b">>
                    \o <<"X-Goog-Signature">>

\* C27: every header outside the unhoistable set is in the query string and
\* not among the signed headers, and every remaining header that is
\* unsignable and not signable is absent from the headers that are signed
\* and hashed.
C27_HoistedAndUnsignable ==
    sgPc # "call" =>
        \A h \in WithHost(sgReq.headers) :
            /\ h \notin Unhoistable(sgReq) =>
                  /\ h \in Names(sgQuery)
                  /\ h \notin Names(sgHeaders)
                  /\ h \notin Names(sgSigned)
            /\ h \in Unhoistable(sgReq) /\ h \in sgReq.unsignable
                                        /\ h \notin sgReq.signable =>
                  /\ h \notin Names(sgHeaders)
                  /\ h \notin Names(sgSigned)

----------------------------------------------------------------------------
(***************************************************************************)
(* deleteObjects.  The keys are handed to the limiter in order and the     *)
(* limiter starts them in order, so the call is described by counts.       *)
(***************************************************************************)
MAX_PARALLEL_LIMIT == 10
MAX_QUEUE_SIZE == 1000
MaxKeys == 1001

DeleteSizes == {0, 1, MAX_PARALLEL_LIMIT, MAX_PARALLEL_LIMIT + 1, MaxKeys}

Min(a, b) == IF a < b THEN a ELSE b

\* The backend deletes in flight.
InFlight == dlStarted - dlSettled

\* deleteObjects: the promise of a task, given its backend delete's
\* outcome; .catch(() => {}) resolves it either way.
TaskResolvesUncaught(ok) == ok
TaskResolves(ok) == TRUE

\* deleteObjects: the tasks the for loop can still push before it awaits
\* the queue, which it does at MAX_QUEUE_SIZE entries.
QueueRoomExclusive(queued) == MAX_QUEUE_SIZE + 1 - queued
QueueRoom(queued) == MAX_QUEUE_SIZE - queued

\* deleteObjects: the for loop from `issued` keys on, with `queued` promises
\* in the queue, up to its next await.
LoopFrom(issued, queued) ==
    LET more == Min(dlKeys - issued, QueueRoom(queued))
    IN /\ dlIssued' = issued + more
       /\ dlQueue' = IF issued + more < dlKeys THEN 0 ELSE queued + more
       /\ dlPc' = IF issued + more < dlKeys THEN "flush" ELSE "final"

DeleteIdle ==
    /\ dlPc = "idle"
    /\ dlKeys = 0
    /\ dlIssued = 0
    /\ dlQueue = 0
    /\ dlStarted = 0
    /\ dlSettled = 0
    /\ dlFailed = FALSE
    /\ dlTaskRejected = FALSE

\* deleteObjects is about to be called with dlKeys keys.
DeleteInit ==
    /\ dlPc = "call"
    /\ dlKeys \in DeleteSizes
    /\ dlIssued = 0
    /\ dlQueue = 0
    /\ dlStarted = 0
    /\ dlSettled = 0
    /\ dlFailed = FALSE
    /\ dlTaskRejected = FALSE

\* deleteObjects up to its first await.
DeleteObjects ==
    /\ dlPc = "call"
    /\ LoopFrom(0, 0)
    /\ UNCHANGED <<dlKeys, dlStarted, dlSettled, dlFailed, dlTaskRejected>>

\* The limiter starts the next task: its deleteObject sends the request.
DeleteStarted ==
    /\ dlStarted < dlIssued
    /\ InFlight < MAX_PARALLEL_LIMIT
    /\ dlStarted' = dlStarted + 1
    /\ UNCHANGED <<dlPc, dlKeys, dlIssued, dlQueue, dlSettled, dlFailed, dlTaskRejected>>

\* A backend delete settles.
DeleteSettled(ok) ==
    /\ dlSettled < dlStarted
    /\ dlSettled' = dlSettled + 1
    /\ dlFailed' = (dlFailed \/ ~ok)
    /\ dlTaskRejected' = (dlTaskRejected \/ ~TaskResolves(ok))
    /\ UNCHANGED <<dlPc, dlKeys, dlIssued, dlQueue, dlStarted>>

\* await Promise.all(queue.splice(0)) settles; the loop goes on.
FlushSettled ==
    /\ dlPc = "flush"
    /\ IF dlTaskRejected
       THEN /\ dlPc' = "rejected"
            /\ UNCHANGED <<dlIssued, dlQueue>>
       ELSE /\ dlSettled = dlIssued
            /\ LoopFrom(dlIssued, dlQueue)
    /\ UNCHANGED <<dlKeys, dlStarted, dlSettled, dlFailed, dlTaskRejected>>

\* await Promise.all(queue) settles.
FinalSettled ==
    /\ dlPc = "final"
    /\ IF dlTaskRejected
       THEN dlPc' = "rejected"
       ELSE /\ dlSettled = dlIssued
            /\ dlPc' = "resolved"
    /\ UNCHANGED <<dlKeys, dlIssued, dlQueue, dlStarted, dlSettled, dlFailed,
                   dlTaskRejected>>

DeleteNext ==
    \/ DeleteObjects
    \/ DeleteStarted
    \/ \E ok \in BOOLEAN : DeleteSettled(ok)
    \/ FlushSettled
    \/ FinalSettled

\* C18: at most 10 backend deletes are in flight at any time, whatever the
\* number of keys; deleteObjects never rejects, whichever backend deletes
\* fail; it can always go on until it has resolved, and it resolves only
\* once every key's delete has been attempted.
C18_BoundedParallelDeletes ==
    /\ InFlight <= MAX_PARALLEL_LIMIT
    /\ dlPc # "rejected"
    /\ dlPc # "resolved" => ENABLED DeleteNext
    /\ dlPc = "resolved" => dlSettled = dlKeys

\* deleteObjects has resolved for more than 10 keys although a backend
\* delete failed.
C18_Witness ==
    /\ dlPc = "resolved"
    /\ dlKeys > MAX_PARALLEL_LIMIT
    /\ dlFailed

\* C33: deleteObjects terminates for every key list when the backend
\* deletes settle; it has then attempted the delete of every key once, no
\* more tasks are ever issued or started than there are keys, and its
\* queue never holds more than 1000 entries.
C33_TerminatesBoundedQueue ==
    /\ [](/\ dlQueue <= MAX_QUEUE_SIZE
          /\ dlStarted <= dlIssued
          /\ dlIssued <= dlKeys
          /\ dlPc = "resolved" => dlStarted = dlKeys /\ dlSettled = dlKeys)
    /\ <>(dlPc = "resolved")

\* deleteObjects has resolved for more than 1000 keys, every delete
\* attempted, its queue holding the tasks pushed since the last flush.
C33_Witness ==
    /\ dlPc = "resolved"
    /\ dlKeys > MAX_QUEUE_SIZE
    /\ dlStarted = dlKeys
    /\ dlQueue = dlKeys - MAX_QUEUE_SIZE

----------------------------------------------------------------------------
(***************************************************************************)
(* TenantConnection.transaction.                                           *)
(***************************************************************************)
Retries == 10

\* What pool.transaction() can fail with: the DatabaseError 08P01 "no more
\* connections allowed", another DatabaseError, knex's acquire timeout,
\* anything else.
AttemptErrors == {"TooManyConnections", "DatabaseError", "KnexTimeoutError", "Error"}

NoTnx == [exists |-> FALSE, completed |-> FALSE, searchPath |-> FALSE,
          rollbacks |-> 0]

\* transaction: the errors the retry callback rethrows instead of bailing.
IsTransientAny(e) == TRUE
IsTransient(e) == e = "TooManyConnections"

\* transaction: the outer catch.
SurfaceError(e) == IF e = "KnexTimeoutError" THEN "DatabaseTimeout" ELSE e

\* transaction: the condition of the block checking isCompleted and
\* resetting the search path.
ChecksTransactionInternal(opts) == ~opts.instance /\ ~opts.isExternalPool
ChecksTransaction(opts) == ~opts.instance /\ opts.isExternalPool

TxIdle ==
    /\ txPc = "idle"
    /\ txOpts = [instance |-> FALSE, isExternalPool |-> FALSE]
    /\ txAttempts = 0
    /\ txRetried = {}
    /\ txTnx = NoTnx
    /\ txError = "none"

\* transaction() is about to be called.
TxInit ==
    /\ txPc = "call"
    /\ txOpts \in [instance : BOOLEAN, isExternalPool : BOOLEAN]
    /\ txAttempts = 0
    /\ txRetried = {}
    /\ txTnx = NoTnx
    /\ txError = "none"

\* transaction up to its first await: retry runs the first attempt.
Transaction ==
    /\ txPc = "call"
    /\ txPc' = "attempt"
    /\ txAttempts' = 1
    /\ UNCHANGED <<txOpts, txRetried, txTnx, txError>>

\* pool.transaction() resolves with a transaction, which may already
\* report itself completed.
AttemptResolved(completed) ==
    /\ txPc = "attempt"
    /\ txTnx' = [NoTnx EXCEPT !.exists = TRUE, !.completed = completed]
    /\ txPc' = IF ChecksTransaction(txOpts)
               THEN IF completed THEN "execution" ELSE "reset"
               ELSE "returned"
    /\ UNCHANGED <<txOpts, txAttempts, txRetried, txError>>

\* pool.transaction() rejects; inTime: the 3 s of maxRetryTime have not
\* elapsed.  A rethrown error is retried while retries and time are left,
\* any other error bails.
AttemptRejected(e, inTime) ==
    /\ txPc = "attempt"
    /\ IF IsTransient(e) /\ inTime /\ txAttempts <= Retries
       THEN /\ txPc' = "backoff"
            /\ txRetried' = txRetried \cup {e}
            /\ UNCHANGED txError
       ELSE /\ txPc' = "thrown"
            /\ txError' = SurfaceError(e)
            /\ UNCHANGED txRetried
    /\ UNCHANGED <<txOpts, txAttempts, txTnx>>

\* The backoff timer of retry fires: the next attempt.
RetryAttempt ==
    /\ txPc = "backoff"
    /\ txPc' = "attempt"
    /\ txAttempts' = txAttempts + 1
    /\ UNCHANGED <<txOpts, txRetried, txTnx, txError>>

\* await tnx.executionPromise settles for a completed transaction.
ExecutionSettled(e) ==
    /\ txPc = "execution"
    /\ txPc' = "thrown"
    /\ txError' = IF e = "none" THEN "TransactionCompleted" ELSE SurfaceError(e)
    /\ UNCHANGED <<txOpts, txAttempts, txRetried, txTnx>>

\* await tnx.raw(set_config('search_path', ...)) settles.
ResetSettled(e) ==
    /\ txPc = "reset"
    /\ IF e = "none"
       THEN /\ txTnx' = [txTnx EXCEPT !.searchPath = TRUE]
            /\ txPc' = "returned"
            /\ UNCHANGED txError
       ELSE /\ txTnx' = [txTnx EXCEPT !.rollbacks = @ + 1]
            /\ txPc' = "rollback"
            /\ txError' = e
    /\ UNCHANGED <<txOpts, txAttempts, txRetried>>

\* await tnx.rollback() settles; the reset's error is thrown, or the
\* rollback's own.
RollbackSettled(e) ==
    /\ txPc = "rollback"
    /\ txPc' = "thrown"
    /\ txError' = SurfaceError(IF e = "none" THEN txError ELSE e)
    /\ UNCHANGED <<txOpts, txAttempts, txRetried, txTnx>>

TxNext ==
    \/ Transaction
    \/ \E completed \in BOOLEAN : AttemptResolved(completed)
    \/ \E e \in AttemptErrors, inTime \in BOOLEAN : AttemptRejected(e, inTime)
    \/ RetryAttempt
    \/ \E e \in {"none", "DatabaseError"} : ExecutionSettled(e)
    \/ \E e \in {"none", "DatabaseError", "KnexTimeoutError"} : ResetSettled(e)
    \/ \E e \in {"none", "DatabaseError", "KnexTimeoutError"} : RollbackSettled(e)

TxDone == txPc \in {"returned", "thrown"}

\* C14: another attempt is made only after the too-many-connections
\* error, so any other error is the call's last attempt; at most
\* Retries + 1 attempts are made, and the call can always go on until it has
\* returned a transaction or thrown an error.
C14_RetryOnlyTransient ==
    /\ txRetried \subseteq {"TooManyConnections"}
    /\ txAttempts <= Retries + 1
    /\ ~TxDone /\ txPc # "idle" => ENABLED TxNext
    /\ txPc = "returned" => txTnx.exists /\ txError = "none"
    /\ txPc = "thrown" => txError # "none"

\* The call made all its attempts and ended with the transient error.
C14_Witness ==
    /\ txPc = "thrown"
    /\ txAttempts = Retries + 1
    /\ txError = "TooManyConnections"

\* C15: a transaction that reports itself completed is never returned.
C15_CompletedNeverReturned ==
    txPc = "returned" => ~txTnx.completed

----------------------------------------------------------------------------
(***************************************************************************)
(* The pool cache: TenantConnection.create and stop, and the               *)
(* TTL eviction of `connections`.  Time advances in units; a timer that    *)
(* is due fires before anything later happens.  isExternalPool is a        *)
(* property of the database URL, so every create of one connection string  *)
(* passes the same value.                                                  *)
(***************************************************************************)
PoolTtl == 2
MaxPools == 2

ConnStrings == {"db1", "db2"}
NoPool == 0

\* create: the condition under which a new pool is put in the cache.
Cacheable(cs) == ~plExternal[cs] \/ ~plMultitenant

\* connections: updateAgeOnGet, the age of an entry after a get.
AgeOnGetKept(age) == age
AgeOnGet(age) == 0

Cached == {plCache[cs] : cs \in ConnStrings} \ {NoPool}

\* pool.destroy() is called on pool p.
Destroy(pools, p) == [pools EXCEPT ![p].destroys = @ + 1]

NoCreate == [pool |-> NoPool, idle |-> PoolTtl, stopped |-> FALSE]
NoPair == [first |-> NoPool, second |-> NoPool, gap |-> PoolTtl, stopped |-> FALSE]
NoStop == [called |-> FALSE, cached |-> {}, results |-> <<>>, left |-> {},
           rejected |-> FALSE]

PoolIdle ==
    /\ plMultitenant = FALSE
    /\ plExternal = [cs \in ConnStrings |-> FALSE]
    /\ plCache = [cs \in ConnStrings |-> NoPool]
    /\ plAge = [cs \in ConnStrings |-> 0]
    /\ plPools = <<>>
    /\ plPrev = [cs \in ConnStrings |-> NoCreate]
    /\ plPair = [cs \in ConnStrings |-> NoPair]
    /\ plStop = NoStop

\* The process has started: the cache is empty.
PoolInit ==
    /\ plMultitenant \in BOOLEAN
    /\ plExternal \in [ConnStrings -> BOOLEAN]
    /\ plCache = [cs \in ConnStrings |-> NoPool]
    /\ plAge = [cs \in ConnStrings |-> 0]
    /\ plPools = <<>>
    /\ plPrev = [cs \in ConnStrings |-> NoCreate]
    /\ plPair = [cs \in ConnStrings |-> NoPair]
    /\ plStop = NoStop

\* The history kept for the claims: create returned pool p for cs.
Created(cs, p) ==
    /\ plPair' = [plPair EXCEPT ![cs] = [first |-> plPrev[cs].pool, second |-> p,
                                         gap |-> plPrev[cs].idle,
                                         stopped |-> plPrev[cs].stopped]]
    /\ plPrev' = [plPrev EXCEPT ![cs] = [pool |-> p, idle |-> 0, stopped |-> FALSE]]

\* TenantConnection.create: a cached pool is returned and its TTL
\* refreshed, otherwise a pool is built and, when cacheable, cached.
Create(cs) ==
    /\ plCache[cs] # NoPool => plAge[cs] < PoolTtl
    /\ IF plCache[cs] # NoPool
       THEN /\ plAge' = [plAge EXCEPT ![cs] = AgeOnGet(@)]
            /\ Created(cs, plCache[cs])
            /\ UNCHANGED <<plCache, plPools>>
       ELSE /\ Len(plPools) < MaxPools
            /\ LET p == Len(plPools) + 1
               IN /\ plPools' = Append(plPools, [cs |-> cs, destroys |-> 0,
                                                 evicted |-> FALSE])
                  /\ Created(cs, p)
                  /\ IF Cacheable(cs)
                     THEN /\ plCache' = [plCache EXCEPT ![cs] = p]
                          /\ plAge' = [plAge EXCEPT ![cs] = 0]
                     ELSE UNCHANGED <<plCache, plAge>>
    /\ UNCHANGED <<plMultitenant, plExternal, plStop>>

\* Time passes, unless the TTL timer of an entry is due.
Tick ==
    /\ \A cs \in ConnStrings : plCache[cs] # NoPool => plAge[cs] < PoolTtl
    /\ plAge' = [cs \in ConnStrings |->
                    IF plCache[cs] # NoPool THEN plAge[cs] + 1 ELSE plAge[cs]]
    /\ plPrev' = [cs \in ConnStrings |->
                    [plPrev[cs] EXCEPT !.idle = IF @ < PoolTtl THEN @ + 1 ELSE @]]
    /\ plPrev' # plPrev \/ plAge' # plAge
    /\ UNCHANGED <<plMultitenant, plExternal, plCache, plPools, plPair, plStop>>

\* The TTL of an entry has elapsed: the cache drops it and its dispose
\* hook destroys the pool, whether or not the destroy succeeds.
Expire(cs) ==
    /\ plCache[cs] # NoPool
    /\ plAge[cs] = PoolTtl
    /\ plCache' = [plCache EXCEPT ![cs] = NoPool]
    /\ plAge' = [plAge EXCEPT ![cs] = 0]
    /\ plPools' = [Destroy(plPools, plCache[cs]) EXCEPT ![plCache[cs]].evicted = TRUE]
    /\ UNCHANGED <<plMultitenant, plExternal, plPrev, plPair, plStop>>

\* stop: how the returned promise settles, given the promises of the
\* destroys: Promise.allSettled never rejects.
StopRejectsAll(failing) == failing # {}
StopRejects(failing) == FALSE

\* stop(): every cached pool is destroyed and deleted from the cache,
\* whose dispose hook destroys it again; `failing` are the pools whose
\* destroy rejects.
Stop(failing) ==
    /\ failing \subseteq Cached
    /\ plCache' = [cs \in ConnStrings |-> NoPool]
    /\ plStop' = [called |-> TRUE,
                  cached |-> Cached,
                  results |-> [p \in Cached |->
                                  IF p \in failing THEN "rejected" ELSE "fulfilled"],
                  left |-> {plCache'[cs] : cs \in ConnStrings} \ {NoPool},
                  rejected |-> StopRejects(failing)]
    /\ plPools' = [p \in 1..Len(plPools) |->
                      IF p \in Cached
                      THEN [plPools[p] EXCEPT !.destroys = @ + 2]
                      ELSE plPools[p]]
    /\ plAge' = [cs \in ConnStrings |-> 0]
    /\ plPrev' = [cs \in ConnStrings |-> [plPrev[cs] EXCEPT !.stopped = TRUE]]
    /\ UNCHANGED <<plMultitenant, plExternal, plPair>>

PoolNext ==
    \/ \E cs \in ConnStrings : Create(cs)
    \/ Tick
    \/ \E cs \in ConnStrings : Expire(cs)
    \/ \E failing \in SUBSET Cached : Stop(failing)

C13_StopDestroysAll ==
    plStop.called =>
        /\ \A p \in plStop.cached : plPools[p].destroys >= 1
        /\ plStop.left = {}
        /\ ~plStop.rejected
        /\ DOMAIN plStop.results = plStop.cached
        /\ \A p \in plStop.cached : plStop.results[p] \in {"fulfilled", "rejected"}

\* stop() ran with two pools cached; the destroy of one of them failed.
C13_Witness ==
    /\ plStop.called
    /\ Cardinality(plStop.cached) = 2
    /\ \E p, q \in plStop.cached :
          /\ plStop.results[p] = "rejected"
          /\ plStop.results[q] = "fulfilled"
          /\ plPools[q].destroys >= 1

\* C31: across create, TTL eviction and stop(), destroy has been called at
\* most once on every pool built.
C31_DestroyedAtMostOnce ==
    \A p \in 1..Len(plPools) : plPools[p].destroys <= 1

----------------------------------------------------------------------------
(***************************************************************************)
(* The connections of one knex pool: acquire, create, timeout and reap of  *)
(* the pooling library as create configures it, and the release and the    *)
(* release handler that create installs.                                   *)
(***************************************************************************)
NumCallers == 3
MaxConnections == 2
MaxTicks == 4

Callers == 1..NumCallers
NoResource == 0

Last(q) == q[Len(q)]
Front(q) == SubSeq(q, 1, Len(q) - 1)
InSeq(q, x) == \E i \in 1..Len(q) : q[i] = x

\* The sequence q without its first element equal to x.
RECURSIVE RemoveFirst(_, _)
RemoveFirst(q, x) ==
    IF q = <<>> THEN <<>>
    ELSE IF Head(q) = x THEN Tail(q)
    ELSE <<Head(q)>> \o RemoveFirst(Tail(q), x)

\* The pool's collections, and the acquires resolved by the step.
ThePool == [used |-> aqUsed, free |-> aqFree, pendingAcquires |-> aqPendingAcquires,
            pendingCreates |-> aqPendingCreates, got |-> {}]

\* The pool hands its free resources to the waiting callers, first come.
RECURSIVE DoAcquire(_)
DoAcquire(P) ==
    IF P.free # <<>> /\ P.pendingAcquires # <<>>
    THEN DoAcquire([P EXCEPT !.pendingAcquires = Tail(@),
                             !.free = Front(@),
                             !.used = Append(@, Last(P.free)),
                             !.got = @ \cup {<<Head(P.pendingAcquires), Last(P.free)>>}])
    ELSE P

\* The pool opens a connection only below max, counting the ones in use
\* and the ones being opened.
ShouldCreateMoreResources(P) ==
    /\ Len(P.used) + P.pendingCreates < aqMax
    /\ P.pendingCreates < Len(P.pendingAcquires)

\* pool._tryAcquireOrCreate.
TryAcquireOrCreate(P) ==
    IF P.free # <<>> THEN DoAcquire(P)
    ELSE IF ShouldCreateMoreResources(P) THEN [P EXCEPT !.pendingCreates = @ + 1]
    ELSE P

\* The step leaves the pool as P and resolves the acquires of P.got; the
\* other callers are as in `callers`.
PoolBecomes(P, callers) ==
    /\ aqUsed' = P.used
    /\ aqFree' = P.free
    /\ aqPendingAcquires' = P.pendingAcquires
    /\ aqPendingCreates' = P.pendingCreates
    /\ aqCaller' = [c \in Callers |->
                       IF \E g \in P.got : g[1] = c
                       THEN [st |-> "holding",
                             res |-> (CHOOSE g \in P.got : g[1] = c)[2],
                             err |-> "none"]
                       ELSE callers[c]]

\* A callback queued with nextTick by a release: the function it calls and
\* the resource whose release queued it, NoResource when release did not
\* find the resource in use.
Queued(fn, r) == [fn |-> fn, of |-> r]

\* release: whether the resource is found in pool.used.
ReleaseFindsAny(used, r) == TRUE
ReleaseFinds(used, r) == InSeq(used, r)

AcquireIdle ==
    /\ aqMax = 1
    /\ aqCustom = FALSE
    /\ aqUsed = <<>>
    /\ aqFree = <<>>
    /\ aqPendingAcquires = <<>>
    /\ aqPendingCreates = 0
    /\ aqTicks = <<>>
    /\ aqCreated = 0
    /\ aqCaller = [c \in Callers |-> [st |-> "idle", res |-> NoResource, err |-> "none"]]
    /\ aqReleased = "none"

\* create has built the pool, with max from options.maxConnections or
\* databaseMaxConnections, and with or without the custom release policy.
AcquireInit ==
    /\ aqMax \in 1..MaxConnections
    /\ aqCustom \in BOOLEAN
    /\ aqUsed = <<>>
    /\ aqFree = <<>>
    /\ aqPendingAcquires = <<>>
    /\ aqPendingCreates = 0
    /\ aqTicks = <<>>
    /\ aqCreated = 0
    /\ aqCaller = [c \in Callers |-> [st |-> "idle", res |-> NoResource, err |-> "none"]]
    /\ aqReleased = "none"

\* Caller c opens a transaction: the pool queues its acquire.
Acquire(c) ==
    /\ aqCaller[c].st = "idle"
    /\ \A d \in Callers : d < c => aqCaller[d].st # "idle"
    /\ PoolBecomes(TryAcquireOrCreate([ThePool EXCEPT !.pendingAcquires = Append(@, c)]),
                   [aqCaller EXCEPT ![c].st = "waiting"])
    /\ UNCHANGED <<aqMax, aqCustom, aqTicks, aqCreated, aqReleased>>

\* The opening of a connection settles, once the queued callbacks have run.
CreateSettled(ok) ==
    /\ aqPendingCreates > 0
    /\ aqTicks = <<>>
    /\ IF ok
       THEN /\ aqCreated < NumCallers
            /\ aqCreated' = aqCreated + 1
            /\ PoolBecomes(TryAcquireOrCreate(
                   [ThePool EXCEPT !.pendingCreates = @ - 1,
                                   !.free = Append(@, aqCreated + 1)]),
                   aqCaller)
       ELSE /\ UNCHANGED aqCreated
            /\ PoolBecomes(TryAcquireOrCreate([ThePool EXCEPT !.pendingCreates = @ - 1]),
                           aqCaller)
    /\ UNCHANGED <<aqMax, aqCustom, aqTicks, aqReleased>>

\* acquireTimeoutMillis elapses for a waiting caller: its acquire fails
\* with knex's timeout error, which transaction() surfaces.
AcquireTimeout(c) ==
    /\ aqCaller[c].st = "waiting"
    /\ aqTicks = <<>>
    /\ aqPendingAcquires' = RemoveFirst(aqPendingAcquires, c)
    /\ aqCaller' = [aqCaller EXCEPT ![c] = [st |-> "failed", res |-> NoResource,
                                            err |-> SurfaceError("KnexTimeoutError")]]
    /\ UNCHANGED <<aqMax, aqCustom, aqUsed, aqFree, aqPendingCreates, aqTicks,
                   aqCreated, aqReleased>>

\* pool.release(r), of a resource in use or not.  With the custom policy
\* the release handler queues the idle check and release queues
\* _tryAcquireOrCreate; the library's release calls it at once.
PoolRelease(r) ==
    /\ r \in 1..aqCreated
    /\ Len(aqTicks) + 2 <= MaxTicks
    /\ IF ReleaseFinds(aqUsed, r)
       THEN /\ aqReleased' = "true"
            /\ LET P == [ThePool EXCEPT !.used = RemoveFirst(@, r),
                                         !.free = Append(@, r)]
                   callers == [c \in Callers |->
                                  IF aqCaller[c].st = "holding" /\ aqCaller[c].res = r
                                  THEN [aqCaller[c] EXCEPT !.st = "released"]
                                  ELSE aqCaller[c]]
               IN IF aqCustom
                  THEN /\ PoolBecomes(P, callers)
                       /\ aqTicks' = aqTicks \o <<Queued("check", r),
                                                    Queued("tryAcquireOrCreate", r)>>
                  ELSE /\ PoolBecomes(TryAcquireOrCreate(P), callers)
                       /\ UNCHANGED aqTicks
       ELSE /\ aqReleased' = "false"
            /\ aqTicks' = IF aqCustom THEN Append(aqTicks, Queued("check", NoResource))
                                     ELSE aqTicks
            /\ UNCHANGED <<aqUsed, aqFree, aqPendingAcquires, aqPendingCreates, aqCaller>>
    /\ UNCHANGED <<aqMax, aqCustom, aqCreated>>

\* The next callback queued with nextTick runs: pool.check() destroys the
\* idle resources (idleTimeoutMillis is 0), or _tryAcquireOrCreate runs.
RunTick ==
    /\ aqTicks # <<>>
    /\ aqTicks' = Tail(aqTicks)
    /\ IF Head(aqTicks).fn = "check"
       THEN PoolBecomes([ThePool EXCEPT !.free = <<>>], aqCaller)
       ELSE PoolBecomes(TryAcquireOrCreate(ThePool), aqCaller)
    /\ UNCHANGED <<aqMax, aqCustom, aqCreated, aqReleased>>

\* Without the custom policy the pool's reaper destroys the idle resources.
Reap ==
    /\ ~aqCustom
    /\ aqFree # <<>>
    /\ aqFree' = <<>>
    /\ UNCHANGED <<aqMax, aqCustom, aqUsed, aqPendingAcquires, aqPendingCreates,
                   aqTicks, aqCreated, aqCaller, aqReleased>>

AcquireNext ==
    \/ \E c \in Callers : Acquire(c)
    \/ \E ok \in BOOLEAN : CreateSettled(ok)
    \/ \E c \in Callers : AcquireTimeout(c)
    \/ \E r \in Callers : PoolRelease(r)
    \/ RunTick
    \/ Reap

\* C17: the resources in use never outnumber the pool's max, and neither
\* do the resources in use, idle and being opened together; a caller holds
\* a resource only while it is in use or after a release; a caller beyond
\* the bound waits, and a caller whose wait timed out has failed with
\* DatabaseTimeout.
C17_UsedWithinMax ==
    /\ Len(aqUsed) <= aqMax
    /\ Len(aqUsed) + Len(aqFree) + aqPendingCreates <= aqMax
    /\ \A i, j \in 1..Len(aqUsed) : i # j => aqUsed[i] # aqUsed[j]
    /\ \A c \in Callers :
          /\ aqCaller[c].st = "waiting" <=> InSeq(aqPendingAcquires, c)
          /\ aqCaller[c].st = "failed" => aqCaller[c].err = "DatabaseTimeout"
          /\ aqCaller[c].st = "holding" => InSeq(aqUsed, aqCaller[c].res)
          /\ \A d \in Callers :
                c # d /\ aqCaller[c].st = "holding" /\ aqCaller[d].st = "holding" =>
                    aqCaller[c].res # aqCaller[d].res

\* The pool is full, a further caller waited and timed out.
C17_Witness ==
    /\ Len(aqUsed) = aqMax
    /\ aqMax = MaxConnections
    /\ \E c \in Callers :
          /\ aqCaller[c].st = "failed"
          /\ aqCaller[c].err = "DatabaseTimeout"

\* C25: with the custom release policy, while the idle check queued by
\* the release of a resource has not run yet, the pool has not handed that
\* resource to a waiting acquirer.
C25_CheckBeforeReacquire ==
    aqCustom =>
        \A i \in 1..Len(aqTicks) :
            aqTicks[i].fn = "check" /\ aqTicks[i].of # NoResource =>
                ~InSeq(aqUsed, aqTicks[i].of)

----------------------------------------------------------------------------
(***************************************************************************)
(* validateMimeType.  A MIME string is the sequence of its pieces between  *)
(* slashes, what split('/') returns.                                       *)
(***************************************************************************)
MaxAllowed == 2

Undefined == "<undefined>"

MimeTypes == {<<"bad">>, <<"image", "png">>, <<"text", "plain">>, <<"image", "">>,
              <<"image", "png", "x">>}

AllowedEntries == {<<"image", "*">>, <<"image", "png">>, <<"text", "plain">>,
                   <<"image">>}

AllowedLists == UNION {[1..n -> AllowedEntries] : n \in 0..MaxAllowed}

\* Destructuring: the i-th piece, undefined past the end.
Piece(parts, i) == IF i <= Len(parts) THEN parts[i] ELSE Undefined

\* validateMimeType: whether the loop returns true at entry i or later.
RECURSIVE AllowedFrom(_, _, _)
AllowedFrom(requestedMime, allowed, i) ==
    IF i > Len(allowed) THEN FALSE
    ELSE IF Len(requestedMime) < 2 THEN AllowedFrom(requestedMime, allowed, i + 1)
    ELSE LET type == Piece(requestedMime, 1)
             ext == Piece(requestedMime, 2)
             allowedType == Piece(allowed[i], 1)
             allowedExtension == Piece(allowed[i], 2)
         IN IF allowedType = type /\ allowedExtension = "*" THEN TRUE
            ELSE IF allowedType = type /\ allowedExtension = ext THEN TRUE
            ELSE AllowedFrom(requestedMime, allowed, i + 1)

\* validateMimeType: "true" when it returns, else the error it throws.
validateMimeType(requestedMime, allowed) ==
    IF Len(requestedMime) < 2 THEN "InvalidMimeType"
    ELSE IF AllowedFrom(requestedMime, allowed, 1) THEN "true"
    ELSE "InvalidMimeType"

MimeIdle ==
    /\ mmPc = "idle"
    /\ mmMime = <<"bad">>
    /\ mmAllowed = <<>>
    /\ mmResult = "none"

\* validateMimeType is about to be called.
MimeInit ==
    /\ mmPc = "call"
    /\ mmMime \in MimeTypes
    /\ mmAllowed \in AllowedLists
    /\ mmResult = "none"

\* The call runs.
ValidateMimeType ==
    /\ mmPc = "call"
    /\ mmResult' = validateMimeType(mmMime, mmAllowed)
    /\ mmPc' = IF mmResult' = "true" THEN "returned" ELSE "thrown"
    /\ UNCHANGED <<mmMime, mmAllowed>>

MimeNext == ValidateMimeType

\* C22: validateMimeType succeeds exactly when the MIME string has a type
\* and a subtype (what follows the first slash) and some allowed entry has
\* the same type with subtype '*' or the same subtype; otherwise it throws
\* InvalidMimeType.
C22_MimeAllowed ==
    mmPc # "call" =>
        /\ mmResult \in {"true", "InvalidMimeType"}
        /\ mmResult = "true" <=>
              /\ Len(mmMime) >= 2
              /\ \E i \in 1..Len(mmAllowed) :
                    /\ Len(mmAllowed[i]) >= 2
                    /\ mmAllowed[i][1] = mmMime[1]
                    /\ Tail(mmAllowed[i]) \in {<<"*">>, Tail(mmMime)}

----------------------------------------------------------------------------
(***************************************************************************)
(* fileUploadFromRequest.                                                  *)
(***************************************************************************)
MAX_CUSTOM_METADATA_SIZE == 1048576

UploadRequests ==
    [multipart : BOOLEAN,       \* content-type starts with multipart/form-data
     emptyFolder : BOOLEAN,     \* isEmptyFolder(options.objectName)
     formData : BOOLEAN,        \* request.file() resolves with a file
     mimeType : {<<"image", "png">>, <<"bad">>},
     allowedMimeTypes : {<<>>, <<<<"image", "*">>>>},
     hasMetadata : BOOLEAN,     \* the metadata field or x-metadata header is a string
     metadataSize : {0, MAX_CUSTOM_METADATA_SIZE, MAX_CUSTOM_METADATA_SIZE + 1},
     parses : BOOLEAN]          \* the metadata decodes and parses as JSON

NoResult == [error |-> "none", cause |-> "none", userMetadata |-> "undefined"]

\* fileUploadFromRequest: the MIME check of both branches.
MimeError(req) ==
    IF /\ req.allowedMimeTypes # <<>>
       /\ ~req.emptyFolder
       /\ validateMimeType(req.mimeType, req.allowedMimeTypes) # "true"
    THEN "InvalidMimeType" ELSE "none"

\* fileUploadFromRequest: what the try block of the multipart branch throws
\* once request.file() has settled.
MultipartCause(req, fileOk) ==
    IF ~fileOk THEN "Error"
    ELSE IF ~req.formData THEN "NoContentProvided"
    ELSE IF MimeError(req) # "none" THEN MimeError(req)
    ELSE IF req.hasMetadata /\ req.metadataSize > MAX_CUSTOM_METADATA_SIZE
         THEN "EntityTooLarge"
    ELSE "none"

\* fileUploadFromRequest: the catch of the multipart branch.
MultipartError(cause) == IF cause = "none" THEN "none" ELSE "NoContentProvided"

\* parseUserMetadata, and JSON.parse in the multipart branch.
parseUserMetadata(req) ==
    IF req.hasMetadata /\ req.parses THEN "parsed" ELSE "undefined"

\* The call ends with the given cause and error.
RequestEnds(cause, error) ==
    /\ rqResult' = [error |-> error, cause |-> cause,
                    userMetadata |-> IF error = "none" THEN parseUserMetadata(rqReq)
                                     ELSE "undefined"]
    /\ rqPc' = IF error = "none" THEN "returned" ELSE "thrown"

\* fileUploadFromRequest once maxFileSize is known: the multipart branch
\* awaits request.file(), the binary branch runs to the end.
AfterLimit ==
    IF rqReq.multipart
    THEN /\ rqPc' = "file"
         /\ UNCHANGED rqResult
    ELSE RequestEnds(MimeError(rqReq), MimeError(rqReq))

RequestIdle ==
    /\ rqPc = "idle"
    /\ rqReq = [multipart |-> FALSE, emptyFolder |-> FALSE, formData |-> FALSE,
                mimeType |-> <<"bad">>, allowedMimeTypes |-> <<>>,
                hasMetadata |-> FALSE, metadataSize |-> 0, parses |-> FALSE]
    /\ rqResult = NoResult

\* fileUploadFromRequest is about to be called.
RequestInit ==
    /\ rqPc = "call"
    /\ rqReq \in {r \in UploadRequests :
                    /\ ~r.multipart => ~r.formData
                    /\ ~r.hasMetadata => r.metadataSize = 0 /\ ~r.parses}
    /\ rqResult = NoResult

\* fileUploadFromRequest up to its first await.
FileUploadFromRequest ==
    /\ rqPc = "call"
    /\ IF rqReq.emptyFolder
       THEN AfterLimit
       ELSE /\ rqPc' = "limit"
            /\ UNCHANGED rqResult
    /\ UNCHANGED rqReq

\* getStandardMaxFileSizeLimit settles.
LimitSettled(ok) ==
    /\ rqPc = "limit"
    /\ IF ok THEN AfterLimit ELSE RequestEnds("Error", "Error")
    /\ UNCHANGED rqReq

\* request.file() settles: the rest of the multipart branch.
FileSettled(ok) ==
    /\ rqPc = "file"
    /\ RequestEnds(MultipartCause(rqReq, ok), MultipartError(MultipartCause(rqReq, ok)))
    /\ UNCHANGED rqReq

RequestNext ==
    \/ FileUploadFromRequest
    \/ \E ok \in BOOLEAN : LimitSettled(ok)
    \/ \E ok \in BOOLEAN : FileSettled(ok)

\* C23: a request whose user metadata is larger than 1 MiB is never
\* accepted, and when it is rejected for that the caller observes
\* EntityTooLarge.
C23_OversizeMetadataRejected ==
    rqReq.hasMetadata /\ rqReq.metadataSize > MAX_CUSTOM_METADATA_SIZE =>
        /\ rqPc # "returned"
        /\ rqResult.cause = "EntityTooLarge" => rqResult.error = "EntityTooLarge"

----------------------------------------------------------------------------
(***************************************************************************)
(* TenantConnection: the constructor, asSuperUser and setScope.            *)
(***************************************************************************)
MaxConns == 3

NoRole == "<undefined>"
Pools == {"pool1", "pool2"}
Users == [payload : [role : {NoRole, "", "authenticated", "service_role"}]]

ConnOptions ==
    [user : Users,
     superUser : [payload : [role : {NoRole, "service_role"}]],
     method : {"GET", "PUT"}]

\* The constructor: options.user.payload.role || 'anon'.
RoleOf(user) == IF user.payload.role \in {NoRole, ""} THEN "anon" ELSE user.payload.role

\* new TenantConnection(pool, options).
TenantConnection(pool, options) ==
    [pool |-> pool, options |-> options, role |-> RoleOf(options.user)]

\* asSuperUser: the options of the new connection, a copy with the user
\* replaced.
SuperUserOptionsSame(options) == options
SuperUserOptions(options) == [options EXCEPT !.user = options.superUser]

NoCall == [op |-> "none", this |-> 0]

ConnIdle ==
    /\ cnConns = <<>>
    /\ cnCall = NoCall
    /\ cnScope = "none"

\* A connection has been constructed for a request.
ConnInit ==
    /\ cnConns \in {<<TenantConnection(p, o)>> : p \in Pools, o \in ConnOptions}
    /\ cnCall = NoCall
    /\ cnScope = "none"

\* connection i .asSuperUser().
AsSuperUser(i) ==
    /\ i \in 1..Len(cnConns)
    /\ Len(cnConns) < MaxConns
    /\ cnConns' = Append(cnConns, TenantConnection(cnConns[i].pool,
                                                   SuperUserOptions(cnConns[i].options)))
    /\ cnCall' = [op |-> "asSuperUser", this |-> i]
    /\ UNCHANGED cnScope

\* connection i .setScope(tnx): the role of the transaction is set.
SetScope(i) ==
    /\ i \in 1..Len(cnConns)
    /\ cnScope' = cnConns[i].role
    /\ cnCall' = [op |-> "setScope", this |-> i]
    /\ UNCHANGED cnConns

ConnNext ==
    \/ \E i \in 1..MaxConns : AsSuperUser(i)
    \/ \E i \in 1..MaxConns : SetScope(i)

\* C24: asSuperUser returns a connection on the pool of the connection it
\* is called on, with the role of that connection's superUser, and every
\* connection that existed keeps its pool, role and options; setScope on
\* the new connection sets that role.
C24_SuperUserConnection ==
    [][/\ \A i \in 1..Len(cnConns) : cnConns'[i] = cnConns[i]
       /\ cnCall'.op = "asSuperUser" /\ Len(cnConns') > Len(cnConns) =>
             LET orig == cnConns[cnCall'.this]
                 new == cnConns'[Len(cnConns')]
             IN /\ new.pool = orig.pool
                /\ new.role = RoleOf(orig.options.superUser)
                /\ new.options.superUser = orig.options.superUser
                /\ new.options.method = orig.options.method
       /\ cnCall'.op = "setScope" => cnScope' = cnConns[cnCall'.this].role]_vars

\* An authenticated user's connection and, made from it, a connection that
\* set the role service_role on the same pool.
C24_Witness ==
    /\ Len(cnConns) >= 2
    /\ cnConns[1].role = "authenticated"
    /\ cnConns[2].role = "service_role"
    /\ cnConns[2].pool = cnConns[1].pool
    /\ cnCall = [op |-> "setScope", this |-> 2]
    /\ cnScope = "service_role"

----------------------------------------------------------------------------
(***************************************************************************)
(* GCSBackend.completeMultipartUpload.                                     *)
(***************************************************************************)
MaxParts == 4

PartNumbers == 1..MaxParts

\* The parts lists a caller can supply: the parts of a session, each once,
\* in any order.
PartsLists ==
    {q \in UNION {[1..n -> PartNumbers] : n \in 1..MaxParts} :
        \A i, j \in 1..Len(q) : i # j => q[i] # q[j]}

Ascending(q) == \A i, j \in 1..Len(q) : i < j => q[i] < q[j]

\* The part numbers of a set in ascending order.
RECURSIVE AscendingSeq(_)
AscendingSeq(S) ==
    IF S = {} THEN <<>>
    ELSE LET n == CHOOSE x \in S : \A y \in S : x <= y
         IN <<n>> \o AscendingSeq(S \ {n})

\* completeMultipartUpload: the Part elements of the request body.
CompleteBody(parts) == parts

\* What the storage service can answer to the request: it assembles the
\* parts by ascending part number, it refuses a list that is not in
\* ascending order, or the request fails.
ServiceOutcomes(body) ==
    {"assembled", "RequestError"} \cup
        (IF Ascending(body) THEN {} ELSE {"InvalidPartOrder"})

MultipartIdle ==
    /\ muPc = "idle"
    /\ muParts = <<>>
    /\ muBody = <<>>
    /\ muAssembled = <<>>
    /\ muResult = "none"

\* completeMultipartUpload is about to be called with a parts list.
MultipartInit ==
    /\ muPc = "call"
    /\ muParts \in PartsLists
    /\ muBody = <<>>
    /\ muAssembled = <<>>
    /\ muResult = "none"

\* completeMultipartUpload up to its await: the body is built and posted.
CompleteMultipartUpload ==
    /\ muPc = "call"
    /\ muBody' = CompleteBody(muParts)
    /\ muPc' = "request"
    /\ UNCHANGED <<muParts, muAssembled, muResult>>

\* client.request settles.
CompleteSettled(outcome) ==
    /\ muPc = "request"
    /\ outcome \in ServiceOutcomes(muBody)
    /\ IF outcome = "assembled"
       THEN /\ muAssembled' = AscendingSeq({muBody[i] : i \in 1..Len(muBody)})
            /\ muResult' = "completed"
            /\ muPc' = "returned"
       ELSE /\ muResult' = outcome
            /\ muPc' = "thrown"
            /\ UNCHANGED muAssembled
    /\ UNCHANGED <<muParts, muBody>>

MultipartNext ==
    \/ CompleteMultipartUpload
    \/ \E outcome \in {"assembled", "RequestError", "InvalidPartOrder"} :
          CompleteSettled(outcome)

\* C21: whatever the order of the parts list supplied, the request that
\* completes the upload lists the parts by ascending part number, and
\* unless the request itself fails the call returns with the parts
\* assembled in that order.
C21_AscendingParts ==
    /\ muPc # "call" => Ascending(muBody)
    /\ muPc \in {"returned", "thrown"} /\ muResult # "RequestError" =>
          /\ muPc = "returned"
          /\ muAssembled = AscendingSeq({muParts[i] : i \in 1..Len(muParts)})

----------------------------------------------------------------------------
(***************************************************************************)
(* TenantConnection.create and dispose, with isExternalPool an option of   *)
(* each call.                                                              *)
(***************************************************************************)
MaxHandles == 3

\* create: the condition under which the pool built is put in the cache.
PlacedInCache(isExternalPool, multitenant) == ~isExternalPool \/ ~multitenant

\* dispose: the condition under which the connection destroys its pool.
DisposeDestroys(isExternalPool, multitenant) == isExternalPool /\ multitenant

DisposeIdle ==
    /\ dsMultitenant = FALSE
    /\ dsCache = [cs \in ConnStrings |-> NoPool]
    /\ dsPools = <<>>
    /\ dsConns = <<>>

\* The process has started: no pool, no connection.
DisposeInit ==
    /\ dsMultitenant \in BOOLEAN
    /\ dsCache = [cs \in ConnStrings |-> NoPool]
    /\ dsPools = <<>>
    /\ dsConns = <<>>

\* TenantConnection.create(options) with options.dbUrl = cs: the cached
\* pool is used, otherwise a pool is built and cached when it may be.
CreateConnection(cs, isExternalPool) ==
    /\ Len(dsConns) < MaxHandles
    /\ IF dsCache[cs] # NoPool
       THEN /\ dsConns' = Append(dsConns, [pool |-> dsCache[cs],
                                           isExternalPool |-> isExternalPool,
                                           disposed |-> FALSE, destroyed |-> FALSE])
            /\ UNCHANGED <<dsCache, dsPools>>
       ELSE LET p == Len(dsPools) + 1
                cached == PlacedInCache(isExternalPool, dsMultitenant)
            IN /\ dsPools' = Append(dsPools, [cs |-> cs, destroys |-> 0,
                                              cached |-> cached])
               /\ dsCache' = IF cached THEN [dsCache EXCEPT ![cs] = p] ELSE dsCache
               /\ dsConns' = Append(dsConns, [pool |-> p,
                                              isExternalPool |-> isExternalPool,
                                              disposed |-> FALSE, destroyed |-> FALSE])
    /\ UNCHANGED dsMultitenant

\* connection i .dispose().
Dispose(i) ==
    /\ i \in 1..Len(dsConns)
    /\ ~dsConns[i].disposed
    /\ IF DisposeDestroys(dsConns[i].isExternalPool, dsMultitenant)
       THEN /\ dsPools' = Destroy(dsPools, dsConns[i].pool)
            /\ dsConns' = [dsConns EXCEPT ![i].disposed = TRUE, ![i].destroyed = TRUE]
       ELSE /\ dsConns' = [dsConns EXCEPT ![i].disposed = TRUE]
            /\ UNCHANGED dsPools
    /\ UNCHANGED <<dsMultitenant, dsCache>>

DisposeNext ==
    \/ \E cs \in ConnStrings, isExternalPool \in BOOLEAN :
          CreateConnection(cs, isExternalPool)
    \/ \E i \in 1..MaxHandles : Dispose(i)

\* C32: dispose() on a connection has destroyed the connection's pool
\* exactly when the pool was not placed in the cache.
C32_CachedIffNotDisposed ==
    \A i \in 1..Len(dsConns) :
        dsConns[i].disposed =>
            (dsPools[dsConns[i].pool].cached <=> ~dsConns[i].destroyed)

----------------------------------------------------------------------------
(***************************************************************************)
(* base32.encode and base32.decode.                                        *)
(***************************************************************************)
MaxBytes == 6

Mask == 31

\* The byte values the buffers are made of.
ByteValues == {0, 90, 165, 255}

Buffers == UNION {[1..n -> ByteValues] : n \in 0..MaxBytes}

Alphabet == <<"A", "B", "C", "D", "E", "F", "G", "H", "I", "J", "K", "L", "M",
              "N", "O", "P", "Q", "R", "S", "T", "U", "V", "W", "X", "Y", "Z",
              "2", "3", "4", "5", "6", "7">>

Padding == "="

\* alphabet.charCodeAt(x), as a character.
CharAt(x) == Alphabet[x + 1]

\* fromCharCode: alphabet.indexOf, -1 for a character not in the alphabet.
IndexOf(c) ==
    IF \E x \in 1..Len(Alphabet) : Alphabet[x] = c
    THEN (CHOOSE x \in 1..Len(Alphabet) : Alphabet[x] = c) - 1
    ELSE -1

RECURSIVE Pow2(_)
Pow2(n) == IF n = 0 THEN 1 ELSE 2 * Pow2(n - 1)

ShiftLeft(a, n) == a * Pow2(n)
ShiftRight(a, n) == a \div Pow2(n)

\* a | b on non-negative integers.
RECURSIVE BitOr(_, _)
BitOr(a, b) ==
    IF a = 0 THEN b
    ELSE IF b = 0 THEN a
    ELSE (IF a % 2 = 1 \/ b % 2 = 1 THEN 1 ELSE 0) + 2 * BitOr(a \div 2, b \div 2)

\* buffer[i]: undefined past the end, which the shifts take as 0.
ByteAt(buffer, i) == IF i < Len(buffer) THEN buffer[i + 1] ELSE 0

\* result[j] = v on a buffer: a write past the end is ignored.
WriteAt(result, j, v) == IF j < Len(result) THEN [result EXCEPT ![j + 1] = v] ELSE result

\* encode: the length of the result.
EncodedLengthFloor(n) == (n \div 5) * 8
EncodedLength(n) == ((n + 4) \div 5) * 8

\* encode: the while loop, from i, j, k and the result so far.
RECURSIVE EncodeFrom(_, _, _, _, _)
EncodeFrom(buffer, i, j, k, result) ==
    IF i >= Len(buffer) THEN result
    ELSE LET k5 == k + 5
             k1 == IF k5 >= 5 THEN k5 - 8 ELSE k5
             x == IF k1 < 0
                  THEN BitOr(ShiftRight(ByteAt(buffer, i), -k1),
                             ShiftLeft(ByteAt(buffer, i + 1), 8 + k1))
                  ELSE BitOr(ShiftLeft(ByteAt(buffer, i), k1),
                             ShiftRight(ByteAt(buffer, i + 1), 8 - k1))
             i1 == IF k1 < 0 THEN i ELSE i + 1
         IN EncodeFrom(buffer, i1, j + 1, k1, WriteAt(result, j, CharAt(x % (Mask + 1))))

\* base32.encode.
Base32Encode(buffer) ==
    EncodeFrom(buffer, 0, 0, 0, [n \in 1..EncodedLength(Len(buffer)) |-> Padding])

\* decode: text.replace(/=*$/, '').
RECURSIVE StripPadding(_)
StripPadding(text) ==
    IF text # <<>> /\ text[Len(text)] = Padding
    THEN StripPadding(SubSeq(text, 1, Len(text) - 1))
    ELSE text

\* decode: the while loop, from i, j, k and the result so far; the bytes
\* of the result keep their low 8 bits.
RECURSIVE DecodeFrom(_, _, _, _, _)
DecodeFrom(text, i, j, k, result) ==
    IF i >= Len(text) THEN result
    ELSE LET x == IndexOf(text[i + 1])
         IN IF x = -1 THEN DecodeFrom(text, i + 1, j, k, result)
            ELSE IF k < 3
            THEN DecodeFrom(text, i + 1, j, k + 5,
                            WriteAt(result, j,
                                    BitOr(ByteAt(result, j), ShiftLeft(x, 3 - k)) % 256))
            ELSE DecodeFrom(text, i, j + 1, k - 8,
                            WriteAt(result, j,
                                    BitOr(ByteAt(result, j), ShiftRight(x, k - 3)) % 256))

\* base32.decode.
Base32Decode(text) ==
    LET t == StripPadding(text)
    IN DecodeFrom(t, 0, 0, 0, [n \in 1..((Len(t) * 5) \div 8) |-> 0])

Base32Idle ==
    /\ b32Pc = "idle"
    /\ b32Buffer = <<>>
    /\ b32Text = <<>>
    /\ b32Decoded = <<>>

\* base32.encode is about to be called with a buffer.
Base32Init ==
    /\ b32Pc = "call"
    /\ b32Buffer \in Buffers
    /\ b32Text = <<>>
    /\ b32Decoded = <<>>

\* text = base32.encode(buffer).
Encode ==
    /\ b32Pc = "call"
    /\ b32Text' = Base32Encode(b32Buffer)
    /\ b32Pc' = "encoded"
    /\ UNCHANGED <<b32Buffer, b32Decoded>>

\* base32.decode(text).
Decode ==
    /\ b32Pc = "encoded"
    /\ b32Decoded' = Base32Decode(b32Text)
    /\ b32Pc' = "decoded"
    /\ UNCHANGED <<b32Buffer, b32Text>>

Base32Next ==
    \/ Encode
    \/ Decode

\* C34: the text encode returns has a length that is a multiple of 8 and
\* is made of alphabet characters followed by '=' characters only, and
\* decode gives back the bytes that were encoded.
C34_Base32RoundTrip ==
    /\ b32Pc \in {"encoded", "decoded"} =>
          /\ Len(b32Text) % 8 = 0
          /\ \E n \in 0..Len(b32Text) :
                /\ \A i \in 1..n : IndexOf(b32Text[i]) # -1
                /\ \A i \in (n + 1)..Len(b32Text) : b32Text[i] = Padding
          /\ b32Buffer # <<>> => b32Text # <<>>
    /\ b32Pc = "decoded" => b32Decoded = b32Buffer

\* Six bytes, the last one beginning a second group of eight characters
\* that ends in padding, have been encoded and decoded.
C34_Witness ==
    /\ b32Pc = "decoded"
    /\ Len(b32Buffer) = 6
    /\ b32Buffer[1] = 165
    /\ Len(b32Text) = 16
    /\ b32Text[10] # Padding
    /\ b32Text[11] = Padding
    /\ b32Decoded = b32Buffer

----------------------------------------------------------------------------
(***************************************************************************)
(* The specifications: one per component, the others at rest.              *)
(***************************************************************************)
Init == UploaderInit /\ CopyIdle /\ SignIdle /\ DeleteIdle /\ TxIdle /\ PoolIdle /\ AcquireIdle /\ MimeIdle /\ RequestIdle /\ ConnIdle /\ MultipartIdle /\ DisposeIdle /\ Base32Idle

Next == UploaderNext /\ UNCHANGED <<copyVars, signVars, deleteVars, txVars, poolVars, acquireVars, mimeVars, requestVars, connVars, multipartVars, disposeVars, base32Vars>>

Spec == Init /\ [][Next]_vars

InitCopy == UploaderInit /\ CopyInit /\ SignIdle /\ DeleteIdle /\ TxIdle /\ PoolIdle /\ AcquireIdle /\ MimeIdle /\ RequestIdle /\ ConnIdle /\ MultipartIdle /\ DisposeIdle /\ Base32Idle

NextCopy == CopyNext /\ UNCHANGED <<uploaderVars, signVars, deleteVars, txVars, poolVars, acquireVars, mimeVars, requestVars, connVars, multipartVars, disposeVars, base32Vars>>

SpecCopy == InitCopy /\ [][NextCopy]_vars

InitSign == UploaderInit /\ CopyIdle /\ SignInit /\ DeleteIdle /\ TxIdle /\ PoolIdle /\ AcquireIdle /\ MimeIdle /\ RequestIdle /\ ConnIdle /\ MultipartIdle /\ DisposeIdle /\ Base32Idle

NextSign == SignNext /\ UNCHANGED <<uploaderVars, copyVars, deleteVars, txVars, poolVars, acquireVars, mimeVars, requestVars, connVars, multipartVars, disposeVars, base32Vars>>

SpecSign == InitSign /\ [][NextSign]_vars

InitDelete == UploaderInit /\ CopyIdle /\ SignIdle /\ DeleteInit /\ TxIdle /\ PoolIdle /\ AcquireIdle /\ MimeIdle /\ RequestIdle /\ ConnIdle /\ MultipartIdle /\ DisposeIdle /\ Base32Idle

NextDelete == DeleteNext /\ UNCHANGED <<uploaderVars, copyVars, signVars, txVars, poolVars, acquireVars, mimeVars, requestVars, connVars, multipartVars, disposeVars, base32Vars>>

SpecDelete == InitDelete /\ [][NextDelete]_vars

\* The event loop goes on and every backend request settles.
SpecDeleteFair == SpecDelete /\ WF_vars(NextDelete)

InitTx == UploaderInit /\ CopyIdle /\ SignIdle /\ DeleteIdle /\ TxInit /\ PoolIdle /\ AcquireIdle /\ MimeIdle /\ RequestIdle /\ ConnIdle /\ MultipartIdle /\ DisposeIdle /\ Base32Idle

NextTx == TxNext /\ UNCHANGED <<uploaderVars, copyVars, signVars, deleteVars, poolVars, acquireVars, mimeVars, requestVars, connVars, multipartVars, disposeVars, base32Vars>>

SpecTx == InitTx /\ [][NextTx]_vars

InitPool == UploaderInit /\ CopyIdle /\ SignIdle /\ DeleteIdle /\ TxIdle /\ PoolInit
            /\ AcquireIdle /\ MimeIdle /\ RequestIdle /\ ConnIdle /\ MultipartIdle /\ DisposeIdle /\ Base32Idle

NextPool == PoolNext /\ UNCHANGED <<uploaderVars, copyVars, signVars, deleteVars, txVars, acquireVars, mimeVars, requestVars, connVars, multipartVars, disposeVars, base32Vars>>

SpecPool == InitPool /\ [][NextPool]_vars

InitAcquire == UploaderInit /\ CopyIdle /\ SignIdle /\ DeleteIdle /\ TxIdle /\ PoolIdle
               /\ AcquireInit /\ MimeIdle /\ RequestIdle /\ ConnIdle /\ MultipartIdle /\ DisposeIdle /\ Base32Idle

NextAcquire == AcquireNext /\ UNCHANGED <<uploaderVars, copyVars, signVars, deleteVars,
                                         txVars, poolVars, mimeVars, requestVars, connVars, multipartVars, disposeVars, base32Vars>>

SpecAcquire == InitAcquire /\ [][NextAcquire]_vars

InitMime == UploaderInit /\ CopyIdle /\ SignIdle /\ DeleteIdle /\ TxIdle /\ PoolIdle
            /\ AcquireIdle /\ MimeInit /\ RequestIdle /\ ConnIdle /\ MultipartIdle /\ DisposeIdle /\ Base32Idle

NextMime == MimeNext /\ UNCHANGED <<uploaderVars, copyVars, signVars, deleteVars, txVars,
                                   poolVars, acquireVars, requestVars, connVars, multipartVars, disposeVars, base32Vars>>

SpecMime == InitMime /\ [][NextMime]_vars

InitRequest == UploaderInit /\ CopyIdle /\ SignIdle /\ DeleteIdle /\ TxIdle /\ PoolIdle
               /\ AcquireIdle /\ MimeIdle /\ RequestInit /\ ConnIdle /\ MultipartIdle /\ DisposeIdle /\ Base32Idle

NextRequest == RequestNext /\ UNCHANGED <<uploaderVars, copyVars, signVars, deleteVars,
                                         txVars, poolVars, acquireVars, mimeVars, connVars, multipartVars, disposeVars, base32Vars>>

SpecRequest == InitRequest /\ [][NextRequest]_vars

InitConn == UploaderInit /\ CopyIdle /\ SignIdle /\ DeleteIdle /\ TxIdle /\ PoolIdle
            /\ AcquireIdle /\ MimeIdle /\ RequestIdle /\ ConnInit /\ MultipartIdle /\ DisposeIdle /\ Base32Idle

NextConn == ConnNext /\ UNCHANGED <<uploaderVars, copyVars, signVars, deleteVars, txVars,
                                   poolVars, acquireVars, mimeVars, requestVars, multipartVars, disposeVars, base32Vars>>

SpecConn == InitConn /\ [][NextConn]_vars

InitMultipart == UploaderInit /\ CopyIdle /\ SignIdle /\ DeleteIdle /\ TxIdle /\ PoolIdle
                 /\ AcquireIdle /\ MimeIdle /\ RequestIdle /\ ConnIdle /\ MultipartInit /\ DisposeIdle /\ Base32Idle

NextMultipart == MultipartNext /\ UNCHANGED <<uploaderVars, copyVars, signVars, deleteVars,
                                             txVars, poolVars, acquireVars, mimeVars,
                                             requestVars, connVars, disposeVars, base32Vars>>

SpecMultipart == InitMultipart /\ [][NextMultipart]_vars

InitDispose == UploaderInit /\ CopyIdle /\ SignIdle /\ DeleteIdle /\ TxIdle /\ PoolIdle
               /\ AcquireIdle /\ MimeIdle /\ RequestIdle /\ ConnIdle /\ MultipartIdle
               /\ DisposeInit /\ Base32Idle

NextDispose == DisposeNext /\ UNCHANGED <<uploaderVars, copyVars, signVars, deleteVars,
                                         txVars, poolVars, acquireVars, mimeVars,
                                         requestVars, connVars, multipartVars, base32Vars>>

SpecDispose == InitDispose /\ [][NextDispose]_vars

InitBase32 == UploaderInit /\ CopyIdle /\ SignIdle /\ DeleteIdle /\ TxIdle /\ PoolIdle
              /\ AcquireIdle /\ MimeIdle /\ RequestIdle /\ ConnIdle /\ MultipartIdle
              /\ DisposeIdle /\ Base32Init

NextBase32 == Base32Next /\ UNCHANGED <<uploaderVars, copyVars, signVars, deleteVars,
                                       txVars, poolVars, acquireVars, mimeVars,
                                       requestVars, connVars, multipartVars,
                                       disposeVars>>

SpecBase32 == InitBase32 /\ [][NextBase32]_vars

TypeOK ==
    /\ pc \in [Procs -> {"idle", "probe", "write", "lockwait", "find", "upsert",
                         "events", "commit", "completeCatch", "uploadCatch",
                         "done", "failed"}]
    /\ version \in [Procs -> {NoVersion} \cup Versions]
    /\ rows \subseteq Versions
    /\ lock \in {NoHolder} \cup Procs
    /\ blobs \subseteq Versions
====
